---- MODULE Spec2Model ----
(***************************************************************************)
(* Verification model of the skribble drawing relay (WebSocket server),    *)
(* its archive pipeline (publish_blob / history) and the client-side turn  *)
(* clock (auto word pick, auto next drawer).                               *)
(***************************************************************************)
EXTENDS Integers, Sequences, FiniteSets, TLC

\* ------------------------------------------------------------------------
\* Universe of values the handlers receive.
\* ------------------------------------------------------------------------
Null == "null"
Empty == ""

Conns == {"c1", "c2", "c3"}
RoomIds == {"r1", "r2"}
\* data.roomId as it can arrive on the wire: a room id, or missing/empty.
RoomInputs == RoomIds \cup {Empty}
UserIds == {"u1", "u2"}
Images == {"imgA", "imgB"}
Bodies == {"seg1"}
\* The connection under observation for the per-connection message counts.
Probe == "c1"

\* JavaScript truthiness of the values used here (null, undefined, "" are falsy).
Truthy(v) == v \notin {Null, Empty}

\* a || b
OrElse(a, b) == IF Truthy(a) THEN a ELSE b

\* a string of white space only
Blank == " "

\* s.trim() for the strings used here
Trim(s) == IF s = Blank THEN Empty ELSE s

\* typeof v === 'string' ? v.trim() : ''
StrTrim(v) == IF v = Null THEN Empty ELSE Trim(v)

\* data.clientId the client of connection c puts in its join.
ClientIdOf(c) == c

VARIABLES
    ready,            \* ws.readyState per connection: "OPEN" or "CLOSED"
    closeHandled,     \* whether ws.on('close') has run for the connection
    currentRoom,      \* closure variable currentRoom per connection
    clientId,         \* closure variable clientId per connection
    userId,           \* closure variable userId per connection
    rooms,            \* Map roomId -> Map ws -> {clientId, userId}
    roomCanvasState,  \* Map roomId -> {kind, image, drawerId}
    roomWordCache,    \* Map roomId -> {word, round, drawerId, turnId}
    last,             \* the message (or event) handled by the last step
    sent,             \* the ws.send calls of the last step, in order
    lastWrite,        \* per room: the last processed clear / snapshot
    mon,              \* message counts of the Probe since its last join
    isWindows,        \* process.platform === 'win32'
    now,              \* Date.now() of the relay host
    files,            \* the temp files on disk: name -> content
    pubs,             \* the publish_blob requests: handler closure + exec state
    history,          \* rows of the history table, in insertion order
    inserted,         \* the rows the last step inserted
    wire,             \* per connection: blob replies sent but not yet received
    calls             \* the client's publishBlob promises, one per request

pubVars == <<isWindows, now, files, pubs, history, inserted, wire, calls>>

relayVars == <<ready, closeHandled, currentRoom, clientId, userId, rooms,
               roomCanvasState, roomWordCache, last, sent, lastWrite, mon>>

VARIABLES
    alive,                    \* aliveRef.current: the Game component is mounted
    clock,                    \* Date.now() / 1000 of the client
    ledger,                   \* the room as the ledger service holds it
    queries,                  \* room queries in flight: the answer each will deliver
    retryTimeout,             \* pendingBackToLobbyTimeoutRef
    roomRef,                  \* roomRef.current
    pendingRender,            \* a state update whose effects have not run yet
    showWordSelector,         \* React state showWordSelector
    timeLeft,                 \* React state timeLeft
    isHost,                   \* room.hostChainId === chainId
    autoWordTimeout,          \* autoWordTimeoutRef and the timer behind it
    autoDrawerTimeout,        \* autoDrawerTimeoutRef and the timer behind it
    autoDrawerScheduleKey,    \* autoDrawerScheduleKeyRef.current
    chooseDrawerInFlight,     \* chooseDrawerInFlightRef.current
    wordMutation,             \* a handleChooseWord call awaiting its mutation
    autoWordCalls,            \* timer-made handleChooseWord calls per drawerChosenAt
    autoDrawerCalls,          \* timer-made chooseDrawer calls per (drawerIndex, wordChosenAt)
    fired,                    \* what the last timer callback did
    timers                    \* the window's pending timeouts of the two effects

VARIABLES
    scene                     \* two Canvas components of a room: the drawer's and a viewer's

clockVars == <<alive, clock, ledger, queries, retryTimeout, roomRef, pendingRender,
               showWordSelector, timeLeft, isHost, autoWordTimeout, autoDrawerTimeout,
               autoDrawerScheduleKey, chooseDrawerInFlight, wordMutation,
               autoWordCalls, autoDrawerCalls, fired, timers>>

\* ------------------------------------------------------------------------
\* Records.
\* ------------------------------------------------------------------------
NoInfo == [present |-> FALSE, clientId |-> Null, userId |-> Null]
Info(cid, uid) == [present |-> TRUE, clientId |-> cid, userId |-> uid]
NoRoomMap == [has |-> FALSE, members |-> [c \in Conns |-> NoInfo]]

NoCanvas == [kind |-> "none", image |-> Null, drawerId |-> Null]
NoWord == [has |-> FALSE, word |-> Empty, round |-> Null, drawerId |-> Null, turnId |-> Null]

\* A client -> relay message (JSON.parse(message)); unused fields are Null.
Data(type, roomId, drawerId, image, body) ==
    [type |-> type, roomId |-> roomId, drawerId |-> drawerId, image |-> image, body |-> body,
     clientId |-> Null, userId |-> Null]

\* {type: 'join', roomId, clientId, userId}
JoinData(roomId, cid, uid) ==
    [Data("join", roomId, Null, Null, Null) EXCEPT !.clientId = cid, !.userId = uid]

\* A relay -> client message.
Out(type, roomId, drawerId, image, body) ==
    [type |-> type, roomId |-> roomId, drawerId |-> drawerId, image |-> image, body |-> body]

Send(to, msg) == [to |-> to, msg |-> msg]

RelayedTypes == {"draw", "strokeEnd", "fill", "clear", "undo"}

\* rooms.has(roomId)
RoomsHas(r) == rooms[r].has

\* the connections registered in rooms.get(roomId)
Members(r) == {c \in Conns : rooms[r].members[c].present}

\* ------------------------------------------------------------------------
\* Canvas State Store.
\* ------------------------------------------------------------------------
\* Variant of setRoomBlank that leaves a canvas alone once it has a picture.
SetRoomBlankKeepsImage(state, roomId, drawerId) ==
    IF ~Truthy(roomId) THEN state
    ELSE IF state[roomId].kind = "image" THEN state
    ELSE [state EXCEPT ![roomId] = [kind |-> "blank", image |-> Null, drawerId |-> OrElse(drawerId, Null)]]

\* setRoomBlank(roomId, drawerId)
SetRoomBlank(state, roomId, drawerId) ==
    IF ~Truthy(roomId) THEN state
    ELSE [state EXCEPT ![roomId] = [kind |-> "blank", image |-> Null, drawerId |-> OrElse(drawerId, Null)]]

\* Variant of SetRoomImage that keeps an image already recorded (first write wins).
SetRoomImageFirstWins(state, roomId, image, drawerId) ==
    IF ~Truthy(roomId) THEN state
    ELSE IF ~Truthy(image) THEN state
    ELSE IF state[roomId].kind = "image" THEN state
    ELSE [state EXCEPT ![roomId] = [kind |-> "image", image |-> image, drawerId |-> OrElse(drawerId, Null)]]

\* setRoomImage(roomId, image, drawerId)
SetRoomImage(state, roomId, image, drawerId) ==
    IF ~Truthy(roomId) THEN state
    ELSE IF ~Truthy(image) THEN state
    ELSE [state EXCEPT ![roomId] = [kind |-> "image", image |-> image, drawerId |-> OrElse(drawerId, Null)]]

\* Variant of sendRoomSync that stays silent for a blank canvas.
SendRoomSyncNoBlank(state, c, roomId) ==
    IF ready[c] # "OPEN" \/ ~Truthy(roomId) THEN <<>>
    ELSE IF state[roomId].kind = "image"
         THEN <<Send(c, Out("sync", Null, OrElse(state[roomId].drawerId, Null), state[roomId].image, Null))>>
    ELSE <<>>

\* sendRoomSync(ws, roomId): the sends it makes, given the canvas store.
SendRoomSync(state, c, roomId) ==
    IF ready[c] # "OPEN" \/ ~Truthy(roomId) THEN <<>>
    ELSE IF state[roomId].kind = "none" THEN <<>>
    ELSE IF state[roomId].kind = "blank"
         THEN <<Send(c, Out("sync_clear", Null, OrElse(state[roomId].drawerId, Null), Null, Null))>>
    ELSE IF state[roomId].kind = "image"
         THEN <<Send(c, Out("sync", Null, OrElse(state[roomId].drawerId, Null), state[roomId].image, Null))>>
    ELSE <<>>

\* ------------------------------------------------------------------------
\* Observation of the Probe connection: how many sync / sync_clear messages
\* it was sent since its last join, while it sent nothing but request_sync
\* for the joined room and no draw traffic was relayed in that room.
\* ------------------------------------------------------------------------
MaxCount == 2

MonOff == [phase |-> "off", room |-> Null, syncs |-> 0, reqs |-> 0]
MonIdle == [phase |-> "idle", room |-> Null, syncs |-> 0, reqs |-> 0]
MonVoid == [phase |-> "void", room |-> Null, syncs |-> 0, reqs |-> 0]

SyncTypes == {"sync", "sync_clear"}

\* messages of the step's sends that go to connection c, in order
RECURSIVE SentTo(_, _)
SentTo(sends, c) ==
    IF sends = <<>> THEN <<>>
    ELSE IF Head(sends).to = c THEN <<Head(sends).msg>> \o SentTo(Tail(sends), c)
    ELSE SentTo(Tail(sends), c)

RECURSIVE CountSyncs(_)
CountSyncs(msgs) ==
    IF msgs = <<>> THEN 0
    ELSE (IF Head(msgs).type \in SyncTypes THEN 1 ELSE 0) + CountSyncs(Tail(msgs))

\* The monitor after a step in which connection c's message `data` was handled
\* and `sends` were made.  `resolved` is the room the handler acted on.
MonAfter(c, data, resolved, sends) ==
    LET got == SentTo(sends, Probe)
        isReq == c = Probe /\ data.type = "request_sync" /\ resolved = mon.room
    IN  IF mon.phase = "off" THEN mon
        ELSE IF c = Probe /\ data.type = "join"
        THEN IF data.roomId \in RoomIds
             THEN [phase |-> "joined", room |-> data.roomId, syncs |-> CountSyncs(got), reqs |-> 0]
             ELSE MonVoid
        ELSE IF mon.phase # "joined" THEN mon
        ELSE IF (c = Probe /\ ~isReq) \/ (isReq /\ mon.reqs = MaxCount)
                    \/ (data.type \in RelayedTypes /\ resolved = mon.room)
        THEN MonVoid
        ELSE [mon EXCEPT !.syncs = @ + CountSyncs(got), !.reqs = IF isReq THEN @ + 1 ELSE @]

\* ------------------------------------------------------------------------
\* Initial state: no connection has joined, all maps are empty.  Connections
\* outside `active` have already come and gone without sending anything.
\* ------------------------------------------------------------------------
RoomKeys == RoomInputs

InitRelay(active, monitor) ==
    /\ ready = [c \in Conns |-> IF c \in active THEN "OPEN" ELSE "CLOSED"]
    /\ closeHandled = [c \in Conns |-> c \notin active]
    /\ currentRoom = [c \in Conns |-> Null]
    /\ clientId = [c \in Conns |-> Null]
    /\ userId = [c \in Conns |-> Null]
    /\ rooms = [r \in RoomKeys |-> NoRoomMap]
    /\ roomCanvasState = [r \in RoomKeys |-> NoCanvas]
    /\ roomWordCache = [r \in RoomKeys |-> NoWord]
    /\ last = [conn |-> Null, data |-> Data("none", Null, Null, Null, Null), room |-> Null,
               repeated |-> FALSE]
    /\ sent = <<>>
    /\ lastWrite = [r \in RoomKeys |-> NoCanvas]
    /\ mon = monitor

\* ------------------------------------------------------------------------
\* Message handlers of the relay (ws.on('message'), one action per case).
\* ------------------------------------------------------------------------
\* data.drawerId as a client of connection c may send it.
DrawerInputs(c) == {Null, ClientIdOf(c), "forged"}

RECURSIVE SeqOfSet(_)
SeqOfSet(S) == IF S = {} THEN <<>> ELSE LET x == CHOOSE y \in S : TRUE IN <<x>> \o SeqOfSet(S \ {x})

\* Variant of BroadcastTargets that forgets the `client !== ws` test.
BroadcastTargetsEcho(c) ==
    IF Truthy(currentRoom[c]) /\ RoomsHas(currentRoom[c])
    THEN {d \in Members(currentRoom[c]) : ready[d] = "OPEN"}
    ELSE {}

\* clients.forEach((userInfo, client) => { if (client !== ws && client.readyState === OPEN) send })
BroadcastTargets(c) ==
    IF Truthy(currentRoom[c]) /\ RoomsHas(currentRoom[c])
    THEN {d \in Members(currentRoom[c]) : d # c /\ ready[d] = "OPEN"}
    ELSE {}

Broadcast(c, msg) == [i \in 1..Cardinality(BroadcastTargets(c)) |-> Send(SeqOfSet(BroadcastTargets(c))[i], msg)]

\* the message the relay rebuilds from a draw / strokeEnd / fill / clear / undo
RelayedMsg(data) ==
    Out(data.type, Null, data.drawerId, Null,
        IF data.type \in {"draw", "fill"} THEN data.body ELSE Null)

\* --- the Canvas components at both ends (src/src/components/Canvas.tsx) ---
MaxSegs == 2

\* the connection of the drawer and the connection of a viewer
Artist == "c1"
Viewer == "c2"

\* the k-th segment broadcastSegment sends, and canvas.toDataURL() of the
\* drawer's canvas holding the first k segments
SegNames == <<"seg1", "seg2", "seg3">>
ShotNames == <<"shot0", "shot1", "shot2", "shot3">>
Shot(k) == ShotNames[k + 1]

\* the segments an image shows
SegsOf(image) == {SegNames[k] : k \in {j \in 1..Len(SegNames) : \E i \in j..Len(SegNames) : Shot(i) = image}}

\* the largest canvas width and height considered
MaxDim == 3

\* a number is held as a count of 1/Unit, rounded to the nearest count: a
\* resolution far coarser than that of the double the code computes with
Unit == 1024
Round(a, b) == (2 * a + b) \div (2 * b)

\* a canvas that has not been laid out yet, and no mouse button down
NoSize == [w |-> 0, h |-> 0]
NoPoint == [x |-> 0 - 1, y |-> 0 - 1]

\* the positions getMousePos reports inside a canvas of the given size
PointsIn(size) == {[x |-> x, y |-> y] : x \in 0..size.w, y \in 0..size.h}

\* broadcastSegment: nx = w ? to.x / w : 0
Normalized(x, w) == IF w # 0 THEN Round(x * Unit, w) ELSE 0

\* the payload of broadcastSegment, which carries the absolute and the
\* normalized coordinates of both ends
Payload(from, to, size) ==
    [x |-> to.x, y |-> to.y, prevX |-> from.x, prevY |-> from.y,
     nx |-> Normalized(to.x, size.w), ny |-> Normalized(to.y, size.h),
     nprevX |-> Normalized(from.x, size.w), nprevY |-> Normalized(from.y, size.h)]

\* clamp01 of ws.onmessage
Max(a, b) == IF a >= b THEN a ELSE b
Min(a, b) == IF a <= b THEN a ELSE b
clamp01(v) == Max(0, Min(Unit, v))

\* Variant of the draw branch that takes the absolute coordinates of the
\* message.
ResolvedAbsolute(msg, size) ==
    [from |-> [x |-> msg.prevX * Unit, y |-> msg.prevY * Unit],
     to |-> [x |-> msg.x * Unit, y |-> msg.y * Unit],
     msg |-> msg]

\* ws.onmessage 'draw': the two ends of the line drawNetworkLine paints, in
\* counts of 1/Unit pixel; nx, ny, nprevX and nprevY are defined in every
\* payload of broadcastSegment
Resolved(msg, size) ==
    [from |-> [x |-> clamp01(msg.nprevX) * size.w, y |-> clamp01(msg.nprevY) * size.h],
     to |-> [x |-> clamp01(msg.nx) * size.w, y |-> clamp01(msg.ny) * size.h],
     msg |-> msg]

\* --- the Canvas component with its tools and its undo stack ---
\* the most marks a picture holds and the most snapshots pushed
MaxMarks == 2
MaxOps == 2

Tools == {"brush", "eraser", "fill", "circle", "rectangle", "picker"}
Shapes == {"circle", "rectangle"}
\* where the pointer goes down and where it moves
PressPoint == "a"
PadPoints == {"a", "b"}
\* the tools whose branches differ: the eraser takes those of the brush and
\* the rectangle those of the circle
MainTools == {"brush", "fill", "circle", "picker"}

\* what one drawing call leaves on the canvas; a picture is the sequence of
\* its marks, and canvas.toDataURL() is the picture
Mark(kind, from, to) == [kind |-> kind, from |-> from, to |-> to]
BlankPicture == <<>>

\* tempCanvas: "" or a data URL
NoTemp == [set |-> FALSE, image |-> BlankPicture]

\* [...prev.slice(-9), data]
KeepSnapshots == 9
Pushed(prev, data) ==
    SubSeq(prev, Max(1, Len(prev) - KeepSnapshots + 1), Len(prev)) \o <<data>>

\* the state of the drawer's component; prior, fresh, undone, pointer and
\* pressedWith record, for the properties, the picture before the operation
\* in progress, that an operation has just been completed, that an undo
\* followed it at once, the last position of the pointer during the drag,
\* and the tool the press began with
PadOff == [on |-> FALSE, buffer |-> BlankPicture, history |-> <<>>, tool |-> "brush",
           color |-> "black", isMouseDown |-> FALSE, lastPoint |-> Null, startPoint |-> Null,
           tempCanvas |-> NoTemp, loads |-> <<>>, ops |-> 0,
           prior |-> BlankPicture, fresh |-> FALSE, undone |-> FALSE, pointer |-> Null,
           pressedWith |-> Null]

\* the state of a peer's component; sinceStart records that it opened before
\* the drawer's first operation
PeerOff == [buffer |-> BlankPicture, history |-> <<>>, loads |-> <<>>, sinceStart |-> TRUE]

\* the history the undo of ws.onmessage reads: that of the render in which
\* the WebSocket effect ran, the first one
HistoryAtMount == <<>>

SceneOff == [on |-> FALSE, segs |-> 0, ended |-> 0, timer |-> FALSE, asks |-> 0, inbox |-> <<>>,
             base |-> Shot(0), strokes |-> {}, loads |-> <<>>,
             geometry |-> FALSE, size |-> [c \in {Artist, Viewer} |-> NoSize], lastPoint |-> NoPoint,
             outbox |-> <<>>, cleared |-> FALSE, resurrected |-> FALSE,
             pad |-> PadOff, peer |-> PeerOff]
SceneOn == [SceneOff EXCEPT !.on = TRUE]
\* segments are followed by their coordinates rather than by their names
SceneDraw == [SceneOn EXCEPT !.geometry = TRUE]
\* the drawer's tools and both undo stacks are followed
ScenePad == [SceneOn EXCEPT !.pad.on = TRUE]

InitScene(on) == scene = IF on THEN SceneOn ELSE SceneOff

\* what a message handled by the relay tells about the two components: the
\* drawer has drawn a segment (broadcastSegment), ended a stroke
\* (scheduleSnapshotSend arms the 200 ms timer) or sent its snapshot (the timer
\* fired); the viewer has opened (join, then request_sync) or asked for a sync;
\* and what the relay sends to the viewer arrives in order
SceneAfter(c, data, sends) ==
    IF ~scene.on THEN scene
    ELSE IF scene.pad.on
    THEN [scene EXCEPT
            !.outbox = IF c = Artist /\ data.type \notin {"join", "request_sync"} THEN Tail(@) ELSE @,
            !.asks = IF c = Viewer /\ data.type = "join" THEN @ + 1
                     ELSE IF c = Viewer /\ data.type = "request_sync" THEN @ - 1 ELSE @,
            !.peer.sinceStart = IF c = Viewer /\ data.type = "join" THEN scene.pad.ops = 0 ELSE @,
            !.inbox = @ \o SentTo(sends, Viewer)]
    ELSE [scene EXCEPT
            !.segs = IF c = Artist /\ data.type = "draw" THEN @ + 1 ELSE @,
            !.ended = IF c = Artist /\ data.type = "strokeEnd" THEN scene.segs ELSE @,
            !.timer = IF c = Artist /\ data.type = "strokeEnd" THEN TRUE
                      ELSE IF c = Artist /\ data.type = "snapshot" THEN FALSE ELSE @,
            !.asks = IF c = Viewer /\ data.type = "join" THEN @ + 1
                     ELSE IF c = Viewer /\ data.type = "request_sync" THEN @ - 1 ELSE @,
            !.lastPoint = IF scene.geometry /\ c = Artist /\ data.type = "draw"
                          THEN [x |-> data.body.x, y |-> data.body.y] ELSE @,
            !.outbox = IF c = Artist /\ data.type = "snapshot" /\ @ # <<>> THEN Tail(@) ELSE @,
            !.cleared = @ \/ (c = Viewer /\ data.type = "clear"),
            !.resurrected = @ \/ (c = Artist /\ data.type = "snapshot" /\ scene.cleared
                                    /\ scene.outbox # <<>> /\ Head(scene.outbox).before),
            !.inbox = @ \o SentTo(sends, Viewer)]

Observe(c, data, room, sends) ==
    /\ scene' = SceneAfter(c, data, sends)
    /\ last' = [conn |-> c, data |-> data, room |-> room,
                repeated |-> (data.type = "clear" /\ last.data.type = "clear" /\ last.room = room)]
    /\ sent' = sends
    /\ mon' = MonAfter(c, data, room, sends)
    /\ UNCHANGED clockVars

Step(c, data, room, sends) ==
    /\ Observe(c, data, room, sends)
    /\ UNCHANGED pubVars

\* case 'join'
Join(c, r, uid) ==
    LET data == JoinData(r, ClientIdOf(c), uid)
        canvas == IF roomCanvasState[r].kind = "none"
                  THEN SetRoomBlank(roomCanvasState, r, Null) ELSE roomCanvasState
    IN  /\ ready[c] = "OPEN"
        /\ currentRoom' = [currentRoom EXCEPT ![c] = data.roomId]
        /\ clientId' = [clientId EXCEPT ![c] = data.clientId]
        /\ userId' = [userId EXCEPT ![c] = OrElse(data.userId, Null)]
        /\ rooms' = [rooms EXCEPT ![r] = [has |-> TRUE,
                        members |-> [@.members EXCEPT ![c] = Info(data.clientId, OrElse(data.userId, Null))]]]
        /\ roomCanvasState' = canvas
        /\ Step(c, data, r, <<Send(c, Out("joined", r, Null, Null, Null))>> \o SendRoomSync(canvas, c, r))
        /\ UNCHANGED <<ready, closeHandled, roomWordCache, lastWrite>>

\* Variant of the request_sync case that answers nothing.
RequestSyncSilent(c, r) ==
    LET data == Data("request_sync", r, Null, Null, Null)
        roomId == OrElse(data.roomId, currentRoom[c])
    IN  /\ ready[c] = "OPEN"
        /\ Step(c, data, roomId, <<>>)
        /\ UNCHANGED <<ready, closeHandled, currentRoom, clientId, userId, rooms,
                       roomCanvasState, roomWordCache, lastWrite>>

\* case 'request_sync'
RequestSync(c, r) ==
    LET data == Data("request_sync", r, Null, Null, Null)
        roomId == OrElse(data.roomId, currentRoom[c])
    IN  /\ ready[c] = "OPEN"
        /\ Step(c, data, roomId, IF Truthy(roomId) THEN SendRoomSync(roomCanvasState, c, roomId) ELSE <<>>)
        /\ UNCHANGED <<ready, closeHandled, currentRoom, clientId, userId, rooms,
                       roomCanvasState, roomWordCache, lastWrite>>

\* Variant of the snapshot handler that also relays the snapshot to the room.
SnapshotRelayed(c, r, did, image) ==
    LET data == Data("snapshot", r, did, image, Null)
        roomId == OrElse(data.roomId, currentRoom[c])
        drawerId == OrElse(data.drawerId, clientId[c])
        stores == Truthy(roomId) /\ Truthy(image)
    IN  /\ ready[c] = "OPEN"
        /\ roomCanvasState' = IF stores THEN SetRoomImage(roomCanvasState, roomId, image, drawerId)
                              ELSE roomCanvasState
        /\ lastWrite' = IF stores
                        THEN [lastWrite EXCEPT ![roomId] = [kind |-> "image", image |-> data.image,
                                                            drawerId |-> drawerId]]
                        ELSE lastWrite
        /\ Step(c, data, roomId, Broadcast(c, Out("sync", Null, drawerId, image, Null)))
        /\ UNCHANGED <<ready, closeHandled, currentRoom, clientId, userId, rooms, roomWordCache>>

\* case 'snapshot'
Snapshot(c, r, did, image) ==
    LET data == Data("snapshot", r, did, image, Null)
        roomId == OrElse(data.roomId, currentRoom[c])
        drawerId == OrElse(data.drawerId, clientId[c])
        stores == Truthy(roomId) /\ Truthy(image)
    IN  /\ ready[c] = "OPEN"
        /\ roomCanvasState' = IF stores THEN SetRoomImage(roomCanvasState, roomId, image, drawerId)
                              ELSE roomCanvasState
        /\ lastWrite' = IF stores
                        THEN [lastWrite EXCEPT ![roomId] = [kind |-> "image", image |-> data.image,
                                                            drawerId |-> drawerId]]
                        ELSE lastWrite
        /\ Step(c, data, roomId, <<>>)
        /\ UNCHANGED <<ready, closeHandled, currentRoom, clientId, userId, rooms, roomWordCache>>

\* case 'draw' / 'strokeEnd' / 'fill' / 'undo'
Relay(c, type, did, body) ==
    LET data == Data(type, Null, did, Null, body)
    IN  /\ ready[c] = "OPEN"
        /\ type \in RelayedTypes \ {"clear"}
        /\ Step(c, data, currentRoom[c], Broadcast(c, RelayedMsg(data)))
        /\ UNCHANGED <<ready, closeHandled, currentRoom, clientId, userId, rooms,
                       roomCanvasState, roomWordCache, lastWrite>>

\* case 'clear'
Clear(c, did) ==
    LET data == Data("clear", Null, did, Null, Null)
        tag == OrElse(data.drawerId, clientId[c])
    IN  /\ ready[c] = "OPEN"
        /\ roomCanvasState' = IF Truthy(currentRoom[c])
                              THEN SetRoomBlank(roomCanvasState, currentRoom[c], tag)
                              ELSE roomCanvasState
        /\ lastWrite' = IF Truthy(currentRoom[c])
                        THEN [lastWrite EXCEPT ![currentRoom[c]] = [kind |-> "blank", image |-> Null,
                                                                   drawerId |-> tag]]
                        ELSE lastWrite
        /\ Step(c, data, currentRoom[c], Broadcast(c, RelayedMsg(data)))
        /\ UNCHANGED <<ready, closeHandled, currentRoom, clientId, userId, rooms, roomWordCache>>

\* Variant of the handler that answers a message it cannot handle.
UnhandledAnswered(c, type) ==
    /\ ready[c] = "OPEN"
    /\ type \in {"malformed", "unknown"}
    /\ Step(c, Data(type, Null, Null, Null, Null), currentRoom[c],
            <<Send(c, Out("error", Null, Null, Null, Null))>>)
    /\ UNCHANGED <<ready, closeHandled, currentRoom, clientId, userId, rooms,
                   roomCanvasState, roomWordCache, lastWrite>>

\* a message JSON.parse rejects (the catch logs it), or one whose type has
\* no case in the switch
Unhandled(c, type) ==
    /\ ready[c] = "OPEN"
    /\ type \in {"malformed", "unknown"}
    /\ Step(c, Data(type, Null, Null, Null, Null), currentRoom[c], <<>>)
    /\ UNCHANGED <<ready, closeHandled, currentRoom, clientId, userId, rooms,
                   roomCanvasState, roomWordCache, lastWrite>>

\* rooms.get(currentRoom).delete(ws); if (size === 0) rooms.delete(currentRoom)
Deregister(c) ==
    IF Truthy(currentRoom[c]) /\ RoomsHas(currentRoom[c])
    THEN LET r == currentRoom[c]
             left == [rooms[r].members EXCEPT ![c] = NoInfo]
         IN  [rooms EXCEPT ![r] = IF \A d \in Conns : ~left[d].present
                                  THEN NoRoomMap
                                  ELSE [has |-> TRUE, members |-> left]]
    ELSE rooms

\* case 'leave'
Leave(c) ==
    LET data == Data("leave", currentRoom[c], Null, Null, Null)
    IN  /\ ready[c] = "OPEN"
        /\ rooms' = Deregister(c)
        /\ Step(c, data, currentRoom[c], <<>>)
        /\ UNCHANGED <<ready, closeHandled, currentRoom, clientId, userId,
                       roomCanvasState, roomWordCache, lastWrite>>

\* the socket leaves the OPEN state (readyState becomes CLOSING / CLOSED)
SocketClose(c) ==
    /\ ready[c] = "OPEN"
    /\ ready' = [ready EXCEPT ![c] = "CLOSED"]
    /\ Step(c, Data("socket_close", Null, Null, Null, Null), Null, <<>>)
    /\ UNCHANGED <<closeHandled, currentRoom, clientId, userId, rooms,
                   roomCanvasState, roomWordCache, lastWrite>>

\* ws.on('close')
OnClose(c) ==
    /\ ready[c] = "CLOSED"
    /\ ~closeHandled[c]
    /\ closeHandled' = [closeHandled EXCEPT ![c] = TRUE]
    /\ rooms' = Deregister(c)
    /\ Step(c, Data("close", Null, Null, Null, Null), currentRoom[c], <<>>)
    /\ UNCHANGED <<ready, currentRoom, clientId, userId, roomCanvasState, roomWordCache, lastWrite>>

\* ------------------------------------------------------------------------
\* Archive pipeline: case 'publish_blob', tryPublish and its exec callback.
\* ------------------------------------------------------------------------
MaxNow == 1

PubIds == {"p1", "p2"}
Exts == {"json", "jpg"}
FileNames == (0..MaxNow) \X Exts

NoMeta == [has |-> FALSE, word |-> Empty, round |-> Null, drawerId |-> Null, turnId |-> Null]
TurnMeta == [has |-> TRUE, word |-> Empty, round |-> "2", drawerId |-> "D", turnId |-> "T"]
Metas == {NoMeta, TurnMeta}

\* what a temp file holds: JSON.stringify(data.payload) or the decoded image
Content(image, meta) == [image |-> image, meta |-> meta]
NoFile == Content(Null, NoMeta)

\* the 64 hex digits the publish command prints for a blob
HashOf(content) == <<"blob", content.image, content.meta.word>>
NoHash == <<"blob", Null, Empty>>

\* the image the k-th publishBlob call reads off the canvas
ImageOf(i) == IF i = "p1" THEN "imgA" ELSE "imgB"

IdlePub == [stage |-> "idle", conn |-> Null, kind |-> "none", image |-> Null,
            given |-> NoMeta, meta |-> NoMeta,
            tempFile |-> <<0, "json">>, readContent |-> NoFile, attempt |-> 0,
            invocations |-> 0, replies |-> 0, handed |-> <<>>, firstFailed |-> FALSE,
            witnesses |-> {}]

NoCall == [state |-> "none", conn |-> Null, hash |-> NoHash]

InitPub(platforms) ==
    /\ isWindows \in platforms
    /\ now = 0
    /\ files = [f \in FileNames |-> NoFile]
    /\ pubs = [i \in PubIds |-> IdlePub]
    /\ history = <<>>
    /\ inserted = <<>>
    /\ wire = [c \in Conns |-> <<>>]
    /\ calls = [i \in PubIds |-> NoCall]

\* a step that handles no message of a connection
Internal == Data("internal", Null, Null, Null, Null)

\* ws.send of a blob reply from the handler or the exec callback of request i
Reply(c, msg) == IF ready[c] = "OPEN" THEN <<Send(c, msg)>> ELSE <<>>

BlobPublished(hash) == [Out("blob_published", Null, Null, Null, Null) EXCEPT !.body = hash]
BlobError(message) == [Out("blob_error", Null, Null, Null, Null) EXCEPT !.body = message]

\* Number.isFinite(Number(v)) ? Number(v) : null, for a round that is a number
\* or missing
RoundOf(v) == IF v = Null THEN Null ELSE v

\* Variant of the backfill that does not compare the turn ids.
BackfillAnyTurn(c, meta) ==
    LET cached == IF Truthy(currentRoom[c]) THEN roomWordCache[currentRoom[c]] ELSE NoWord
        metaWord == StrTrim(meta.word)
        metaRound == RoundOf(meta.round)
        roundMatches == cached.round = Null \/ metaRound = Null \/ cached.round = metaRound
        metaDrawerId == StrTrim(meta.drawerId)
        drawerMatches == ~Truthy(cached.drawerId) \/ ~Truthy(metaDrawerId)
                            \/ cached.drawerId = metaDrawerId
        matches == drawerMatches /\ roundMatches
    IN  IF Truthy(currentRoom[c]) /\ cached.has /\ meta.has /\ ~Truthy(metaWord) /\ matches
        THEN [meta EXCEPT !.word = cached.word]
        ELSE meta

\* the word backfill of an enriched payload from roomWordCache
Backfill(c, meta) ==
    LET cached == IF Truthy(currentRoom[c]) THEN roomWordCache[currentRoom[c]] ELSE NoWord
        metaWord == StrTrim(meta.word)
        metaRound == RoundOf(meta.round)
        roundMatches == cached.round = Null \/ metaRound = Null \/ cached.round = metaRound
        metaDrawerId == StrTrim(meta.drawerId)
        drawerMatches == ~Truthy(cached.drawerId) \/ ~Truthy(metaDrawerId)
                            \/ cached.drawerId = metaDrawerId
        metaTurnId == StrTrim(meta.turnId)
        turnMatches == ~Truthy(cached.turnId) \/ ~Truthy(metaTurnId) \/ cached.turnId = metaTurnId
        matches == drawerMatches /\ roundMatches /\ turnMatches
    IN  IF Truthy(currentRoom[c]) /\ cached.has /\ meta.has /\ ~Truthy(metaWord) /\ matches
        THEN [meta EXCEPT !.word = cached.word]
        ELSE meta

\* Variant of set_word that keeps an assertion the room already has.
SetWordKeepsOlder(c, r, word, round, drawerId, turnId) ==
    LET data == [Data("set_word", r, drawerId, Null, word) EXCEPT !.clientId = round, !.userId = turnId]
        roomId == OrElse(r, currentRoom[c])
        w == StrTrim(word)
        turn == StrTrim(turnId)
        entry == [has |-> TRUE, word |-> w, round |-> RoundOf(round),
                  drawerId |-> OrElse(drawerId, clientId[c]), turnId |-> OrElse(turn, Null)]
    IN  /\ ready[c] = "OPEN"
        /\ roomWordCache' = IF Truthy(roomId) /\ Truthy(w) /\ ~roomWordCache[roomId].has
                            THEN [roomWordCache EXCEPT ![roomId] = entry]
                            ELSE roomWordCache
        /\ Step(c, data, currentRoom[c], <<>>)
        /\ UNCHANGED <<ready, closeHandled, currentRoom, clientId, userId, rooms,
                       roomCanvasState, lastWrite>>

\* case 'set_word'
SetWord(c, r, word, round, drawerId, turnId) ==
    LET data == [Data("set_word", r, drawerId, Null, word) EXCEPT !.clientId = round, !.userId = turnId]
        roomId == OrElse(r, currentRoom[c])
        w == StrTrim(word)
        turn == StrTrim(turnId)
        entry == [has |-> TRUE, word |-> w, round |-> RoundOf(round),
                  drawerId |-> OrElse(drawerId, clientId[c]), turnId |-> OrElse(turn, Null)]
    IN  /\ ready[c] = "OPEN"
        /\ roomWordCache' = IF Truthy(roomId) /\ Truthy(w)
                            THEN [roomWordCache EXCEPT ![roomId] = entry]
                            ELSE roomWordCache
        /\ Step(c, data, currentRoom[c], <<>>)
        /\ UNCHANGED <<ready, closeHandled, currentRoom, clientId, userId, rooms,
                       roomCanvasState, lastWrite>>

\* path.join(__dirname, `temp_${Date.now()}.json` / `.jpg`)
TempName(kind) == <<now, IF kind = "payload" THEN "json" ELSE "jpg">>

\* the slots are used in order: p1 is the first request, p2 the second
NextSlot(i) == pubs[i].stage = "idle" /\ (i = "p2" => pubs["p1"].stage # "idle")

\* case 'publish_blob' up to the first tryPublish(command, fallback)
\* the identities registered in the room of connection c
IdentitiesWith(c) ==
    IF Truthy(currentRoom[c]) /\ RoomsHas(currentRoom[c])
    THEN {rooms[currentRoom[c]].members[d].userId : d \in Members(currentRoom[c])} \ {Null, Empty}
    ELSE {}

PublishBlob(i, c, kind, meta) ==
    LET data == [Data("publish_blob", Null, Null, ImageOf(i), i) EXCEPT !.clientId = kind]
        filled == IF kind = "payload" THEN Backfill(c, meta) ELSE NoMeta
        name == TempName(kind)
        content == Content(ImageOf(i), filled)
        sends == IF kind = "none" THEN Reply(c, BlobError("No image or payload provided")) ELSE <<>>
    IN  /\ ready[c] = "OPEN"
        /\ NextSlot(i)
        /\ kind = "payload" \/ meta = NoMeta
        /\ calls' = [calls EXCEPT ![i] = [state |-> "pending", conn |-> c, hash |-> NoHash]]
        /\ files' = IF kind = "none" THEN files ELSE [files EXCEPT ![name] = content]
        /\ pubs' = [pubs EXCEPT ![i] =
                        IF kind = "none"
                        THEN [IdlePub EXCEPT !.stage = "done", !.conn = c, !.replies = Len(sends)]
                        ELSE [stage |-> "spawned", conn |-> c, kind |-> kind, image |-> ImageOf(i),
                              given |-> meta, meta |-> filled, tempFile |-> name, readContent |-> NoFile,
                              attempt |-> 1, invocations |-> 1, replies |-> 0, handed |-> <<>>,
                              firstFailed |-> FALSE, witnesses |-> IdentitiesWith(c)]]
        /\ wire' = [wire EXCEPT ![c] = @ \o [k \in 1..Len(sends) |-> sends[k].msg]]
        /\ inserted' = <<>>
        /\ Observe(c, data, currentRoom[c], sends)
        /\ UNCHANGED <<ready, closeHandled, currentRoom, clientId, userId, rooms,
                       roomCanvasState, roomWordCache, lastWrite, isWindows, now, history>>

\* the publish command opens the file it was given
CmdRun(i) ==
    /\ pubs[i].stage = "spawned"
    /\ pubs' = [pubs EXCEPT ![i].stage = "read", ![i].readContent = files[pubs[i].tempFile],
                             ![i].handed = Append(@, files[pubs[i].tempFile])]
    /\ inserted' = <<>>
    /\ Observe(Null, Internal, Null, <<>>)
    /\ UNCHANGED <<ready, closeHandled, currentRoom, clientId, userId, rooms, roomCanvasState,
                   roomWordCache, lastWrite, isWindows, now, files, history, wire, calls>>

\* a row of the history table: id is AUTOINCREMENT, timestamp is
\* CURRENT_TIMESTAMP of the insert
HistoryRow(id, uid, rid, hash) ==
    [id |-> id, user_id |-> uid, room_id |-> rid, blob_hash |-> hash, timestamp |-> now]

\* the columns an INSERT INTO history names
Inserted(row) == [user_id |-> row.user_id, room_id |-> row.room_id, blob_hash |-> row.blob_hash]

\* roomMembers.forEach((userInfo) => { if (userInfo.userId) stmt.run(userId, currentRoom, hash) })
AutoSaveRows(c, hash) ==
    IF Truthy(currentRoom[c]) /\ RoomsHas(currentRoom[c])
    THEN LET withId == {d \in Members(currentRoom[c]) : Truthy(rooms[currentRoom[c]].members[d].userId)}
             order == SeqOfSet(withId)
         IN  [k \in 1..Len(order) |->
                 HistoryRow(Len(history) + k, rooms[currentRoom[c]].members[order[k]].userId,
                            currentRoom[c], hash)]
    ELSE <<>>

\* roomWordCache.delete(currentRoom) when the archive carried the cached word
CacheAfterPublish(c, p) ==
    IF Truthy(currentRoom[c]) /\ p.kind = "payload" /\ p.meta.has /\ Truthy(StrTrim(p.meta.word))
          /\ roomWordCache[currentRoom[c]].has
          /\ roomWordCache[currentRoom[c]].word = StrTrim(p.meta.word)
    THEN [roomWordCache EXCEPT ![currentRoom[c]] = NoWord]
    ELSE roomWordCache

\* Variant of the fallback that retries on every platform.
FallbackAlways == TRUE

\* the fallback passed to the first tryPublish: WSL, on Windows only
FallbackRuns == isWindows

\* Variant of the clean-up that leaves the file in place.
UnlinkSkipped(fs, name) == fs

\* try { fs.unlinkSync(tempFile); } catch (e) { }
Unlink(fs, name) == [fs EXCEPT ![name] = NoFile]

\* Variant of the exec callback that saves history whatever the outcome.
RowsOnExitAlways(c, outcome, hash) == AutoSaveRows(c, hash)

\* the auto-save is reached only past `if (error) return` and inside
\* `if (match)`
RowsOnExit(c, outcome, hash) == IF outcome = "ok" THEN AutoSaveRows(c, hash) ELSE <<>>

\* exec callback of tryPublish; outcome: "ok", "error" (exec error) or
\* "garbled" (no 64-hex match in stdout)
CmdExit(i, outcome) ==
    LET p == pubs[i]
        c == p.conn
        unlinked == Unlink(files, p.tempFile)
        retry == outcome = "error" /\ p.attempt = 1 /\ FallbackRuns
        silent == outcome = "error" /\ p.attempt = 1 /\ ~FallbackRuns
        hash == HashOf(p.readContent)
        sends == IF outcome = "ok" THEN Reply(c, BlobPublished(hash))
                 ELSE IF outcome = "garbled" THEN Reply(c, BlobError("Could not parse blob hash"))
                 ELSE IF retry \/ silent THEN <<>>
                 ELSE Reply(c, BlobError("Failed to publish blob"))
        rows == RowsOnExit(c, outcome, hash)
        name == TempName(p.kind)
    IN  /\ p.stage = "read"
        /\ outcome \in {"ok", "error", "garbled"}
        /\ p.readContent = NoFile => outcome = "error"
        /\ files' = IF retry THEN [unlinked EXCEPT ![name] = Content(p.image, p.meta)] ELSE unlinked
        /\ pubs' = [pubs EXCEPT ![i] =
                        IF retry
                        THEN [p EXCEPT !.stage = "spawned", !.attempt = 2, !.tempFile = name,
                                       !.readContent = NoFile, !.invocations = @ + 1,
                                       !.firstFailed = TRUE]
                        ELSE [p EXCEPT !.stage = "done", !.replies = @ + Len(sends),
                                       !.firstFailed = @ \/ silent, !.witnesses = {}]]
        /\ roomWordCache' = IF outcome = "ok" THEN CacheAfterPublish(c, p) ELSE roomWordCache
        /\ history' = history \o rows
        /\ inserted' = rows
        /\ wire' = [wire EXCEPT ![c] = @ \o [k \in 1..Len(sends) |-> sends[k].msg]]
        /\ Observe(c, [Data("exec_callback", Null, Null, Null, i) EXCEPT !.clientId = outcome],
                   currentRoom[c], sends)
        /\ UNCHANGED <<ready, closeHandled, currentRoom, clientId, userId, rooms, roomCanvasState,
                       lastWrite, isWindows, now, calls>>

\* Date.now() moves on
Tick ==
    /\ now < MaxNow
    /\ now' = now + 1
    /\ inserted' = <<>>
    /\ Observe(Null, Internal, Null, <<>>)
    /\ UNCHANGED <<ready, closeHandled, currentRoom, clientId, userId, rooms, roomCanvasState,
                   roomWordCache, lastWrite, isWindows, files, pubs, history, wire, calls>>

\* Canvas.tsx publishBlob: handleMsg of every pending promise on the socket
\* sees the next blob reply
ClientRecv(c) ==
    LET msg == Head(wire[c])
        settle(call) == IF call.conn = c /\ call.state = "pending"
                        THEN IF msg.type = "blob_published"
                             THEN [call EXCEPT !.state = "resolved", !.hash = msg.body]
                             ELSE [call EXCEPT !.state = "rejected"]
                        ELSE call
    IN  /\ wire[c] # <<>>
        /\ wire' = [wire EXCEPT ![c] = Tail(@)]
        /\ calls' = [i \in PubIds |-> settle(calls[i])]
        /\ inserted' = <<>>
        /\ Observe(Null, Internal, Null, <<>>)
        /\ UNCHANGED <<ready, closeHandled, currentRoom, clientId, userId, rooms, roomCanvasState,
                       roomWordCache, lastWrite, isWindows, now, files, pubs, history>>

\* --- the viewer's Canvas ---
\* every pending image load has seen one more event applied
Since(loads, event) == [k \in 1..Len(loads) |-> [loads[k] EXCEPT !.since = @ \cup {event}]]

\* ws.onmessage: a sync starts loading its image (painted in img.onload),
\* sync_clear and clear blank the canvas, draw paints the segment, joined
\* sends another request_sync
PeerApplies(m) ==
    LET peer == scene.peer
        filled == peer.buffer \o <<m.body>>
    IN  IF m.type = "sync" /\ Truthy(m.image)
        THEN [scene EXCEPT !.peer.loads = Append(@, <<Mark("image", m.image, m.image)>>)]
        ELSE IF m.type \in {"sync_clear", "clear"}
        THEN [scene EXCEPT !.peer.buffer = BlankPicture, !.peer.history = <<>>]
        ELSE IF m.type = "draw"
        THEN [scene EXCEPT !.peer.buffer = @ \o <<m.body>>]
        ELSE IF m.type = "fill"
        THEN [scene EXCEPT !.peer.buffer = filled, !.peer.history = Pushed(@, filled)]
        ELSE IF m.type = "undo"
        THEN IF HistoryAtMount = <<>> THEN scene
             ELSE [scene EXCEPT !.peer.history = SubSeq(@, 1, Len(@) - 1),
                                !.peer.loads = Append(@, HistoryAtMount[Len(HistoryAtMount)])]
        ELSE IF m.type = "strokeEnd"
        THEN [scene EXCEPT !.peer.history = Pushed(@, peer.buffer)]
        ELSE IF m.type = "joined"
        THEN [scene EXCEPT !.asks = @ + 1]
        ELSE scene

ViewerApplies(m) ==
    IF scene.pad.on THEN PeerApplies(m)
    ELSE IF m.type = "sync" /\ Truthy(m.image)
    THEN [scene EXCEPT !.loads = Append(@, [image |-> m.image, since |-> {}])]
    ELSE IF m.type \in {"sync_clear", "clear"}
    THEN [scene EXCEPT !.base = Shot(0), !.strokes = {}, !.loads = Since(@, m.type)]
    ELSE IF m.type = "draw"
    THEN [scene EXCEPT !.strokes = @ \cup {IF scene.geometry THEN Resolved(m.body, scene.size[Viewer])
                                             ELSE m.body},
                       !.loads = Since(@, m.body)]
    ELSE IF m.type = "joined"
    THEN [scene EXCEPT !.asks = @ + 1]
    ELSE scene

ViewerOnMessage ==
    /\ scene.on
    /\ scene.inbox # <<>>
    /\ scene' = [ViewerApplies(Head(scene.inbox)) EXCEPT !.inbox = Tail(scene.inbox)]
    /\ UNCHANGED <<relayVars, pubVars, clockVars>>

\* img.onload of the peer's oldest pending image (sync or undo)
PeerImageLoaded ==
    /\ scene.pad.on
    /\ scene.peer.loads # <<>>
    /\ scene' = [scene EXCEPT !.peer.buffer = Head(scene.peer.loads), !.peer.loads = Tail(@)]
    /\ UNCHANGED <<relayVars, pubVars, clockVars>>

\* img.onload of a sync: clearRect, fillRect, drawImage
ViewerImageLoaded(k) ==
    /\ scene.on
    /\ k \in 1..Len(scene.loads)
    /\ scene' = [scene EXCEPT !.base = scene.loads[k].image, !.strokes = {},
                              !.loads = SubSeq(@, 1, k - 1) \o SubSeq(@, k + 1, Len(@))]
    /\ UNCHANGED <<relayVars, pubVars, clockVars>>

\* resizeToDisplaySize on mount: the canvas takes the size of its box
Resize(c, w, h) ==
    /\ scene.on
    /\ scene.size[c] = NoSize
    /\ scene' = [scene EXCEPT !.size[c] = [w |-> w, h |-> h]]
    /\ UNCHANGED <<relayVars, pubVars, clockVars>>

\* the 200 ms timer of scheduleSnapshotSend fires: the canvas is captured and
\* the snapshot is on its way to the relay; the capture is marked when the
\* relay has not yet handled the clear of the next turn
SnapshotTimerFires ==
    /\ scene.on
    /\ scene.timer
    /\ scene' = [scene EXCEPT !.timer = FALSE,
                              !.outbox = Append(@, [image |-> Shot(scene.segs), before |-> ~scene.cleared])]
    /\ UNCHANGED <<relayVars, pubVars, clockVars>>

\* handleMouseDown: setLastPoint(point)
MouseDown(point) ==
    /\ scene.on
    /\ scene' = [scene EXCEPT !.lastPoint = point]
    /\ UNCHANGED <<relayVars, pubVars, clockVars>>

\* --- the drawer's handlers ---
\* a message handed to ws.send
Msg(type, body) == [type |-> type, body |-> body]

\* an image whose onload is still to run: it paints the image and then the
\* marks of its closure
Load(image, marks) == [image |-> image, marks |-> marks]

\* isDrawing is true
Drawing == scene.pad.on

\* ws && ws.readyState === WebSocket.OPEN && roomId && clientId
SocketOpen == currentRoom[Artist] = "r1"

\* a handler of the drawer ends: its state updates, what it handed to
\* ws.send, and whether it called scheduleSnapshotSend
PadStep(pad, sends, arm) ==
    /\ scene' = [scene EXCEPT !.pad = pad,
                              !.outbox = IF SocketOpen THEN @ \o sends ELSE @,
                              !.timer = @ \/ arm]
    /\ UNCHANGED <<relayVars, pubVars, clockVars>>

\* setCurrentTool from the toolbar
SelectTool(tool) ==
    /\ Drawing /\ ~scene.pad.isMouseDown
    /\ tool # scene.pad.tool
    /\ PadStep([scene.pad EXCEPT !.tool = tool, !.fresh = FALSE, !.undone = FALSE], <<>>, FALSE)

\* handleMouseDown
HandleMouseDown(point) ==
    LET pad == scene.pad
        filled == pad.buffer \o <<Mark("fill", point, point)>>
        pressed == [pad EXCEPT !.isMouseDown = TRUE, !.lastPoint = point, !.startPoint = point,
                               !.tempCanvas = IF pad.tool \in Shapes
                                              THEN [set |-> TRUE, image |-> pad.buffer] ELSE @,
                               !.ops = @ + 1,
                               !.prior = pad.buffer, !.fresh = FALSE, !.undone = FALSE,
                               !.pointer = point, !.pressedWith = pad.tool]
    IN  /\ Drawing /\ ~pad.isMouseDown
        /\ pad.ops < MaxOps /\ Len(pad.buffer) < MaxMarks
        /\ IF pad.tool = "fill"
           THEN PadStep([pressed EXCEPT !.buffer = filled, !.history = Pushed(@, filled)],
                        <<Msg("fill", Mark("fill", point, point))>>, TRUE)
           ELSE IF pad.tool = "picker"
           THEN PadStep([pressed EXCEPT !.color = "picked", !.tool = "brush"], <<>>, FALSE)
           ELSE PadStep(pressed, <<>>, FALSE)

\* handleMouseMove
HandleMouseMove(point) ==
    LET pad == scene.pad
        line == Mark("line", pad.lastPoint, point)
        moved == [pad EXCEPT !.pointer = point]
    IN  /\ Drawing /\ pad.isMouseDown /\ pad.lastPoint # Null
        /\ point # pad.pointer
        /\ IF pad.tool \in {"brush", "eraser"}
           THEN /\ Len(pad.buffer) < MaxMarks
                /\ PadStep([moved EXCEPT !.buffer = @ \o <<line>>, !.lastPoint = point],
                           <<Msg("draw", line)>>, FALSE)
           ELSE IF pad.tool \in Shapes /\ pad.startPoint # Null /\ pad.tempCanvas.set
           THEN /\ Len(pad.loads) < MaxMarks
                /\ PadStep([moved EXCEPT !.loads = Append(@, Load(pad.tempCanvas.image,
                                                       <<Mark(pad.tool, pad.startPoint, point)>>))],
                           <<>>, FALSE)
           ELSE PadStep(moved, <<>>, FALSE)

\* handleMouseUp
HandleMouseUp ==
    LET pad == scene.pad
        shape == Mark(pad.tool, pad.startPoint, pad.lastPoint)
        commits == pad.tool \in Shapes /\ pad.startPoint # Null /\ pad.lastPoint # Null
        drawn == IF ~commits THEN pad
                 ELSE IF pad.tempCanvas.set
                 THEN [pad EXCEPT !.loads = Append(@, Load(pad.tempCanvas.image, <<shape>>))]
                 ELSE [pad EXCEPT !.buffer = @ \o <<shape>>]
        released == [drawn EXCEPT !.tempCanvas = IF commits THEN NoTemp ELSE @,
                                  !.isMouseDown = FALSE, !.lastPoint = Null, !.startPoint = Null,
                                  !.fresh = pad.pressedWith # "picker", !.undone = FALSE]
    IN  /\ Drawing /\ pad.isMouseDown
        /\ IF pad.tool # "picker"
           THEN PadStep([released EXCEPT !.history = Pushed(@, drawn.buffer)],
                        <<Msg("strokeEnd", Null)>>, TRUE)
           ELSE PadStep(released, <<>>, FALSE)

\* handleUndo -> undo
HandleUndo ==
    LET pad == scene.pad
        prevState == pad.history[Len(pad.history)]
    IN  /\ Drawing /\ ~pad.isMouseDown
        /\ pad.history # <<>>
        /\ PadStep([pad EXCEPT !.history = SubSeq(@, 1, Len(@) - 1),
                               !.loads = Append(@, Load(prevState, <<>>)),
                               !.undone = pad.fresh, !.fresh = FALSE],
                   <<Msg("undo", Null)>>, TRUE)

\* clearCanvas, called by the game when a turn starts
ClearCanvas ==
    LET pad == scene.pad
    IN  /\ Drawing /\ ~pad.isMouseDown
        /\ pad.ops < MaxOps
        /\ PadStep([pad EXCEPT !.buffer = BlankPicture, !.history = <<>>, !.ops = @ + 1,
                               !.fresh = FALSE, !.undone = FALSE],
                   <<Msg("clear", Null)>>, FALSE)

\* img.onload of the drawer's oldest pending image; the onload of undo
\* clears first, those of the shapes paint the opaque image over the canvas
PadImageLoaded ==
    LET pad == scene.pad
    IN  /\ scene.pad.on
        /\ pad.loads # <<>>
        /\ PadStep([pad EXCEPT !.buffer = Head(pad.loads).image \o Head(pad.loads).marks,
                               !.loads = Tail(@)],
                   <<>>, FALSE)

\* the snapshot timer fires: canvas.toDataURL("image/jpeg", 0.7) is sent
PadSnapshotTimerFires ==
    /\ scene.pad.on /\ scene.timer
    /\ scene' = [scene EXCEPT !.timer = FALSE,
                              !.outbox = IF SocketOpen THEN Append(@, Msg("snapshot", "imgA")) ELSE @]
    /\ UNCHANGED <<relayVars, pubVars, clockVars>>

\* the relay handles the next message of the drawer
RelayTakes ==
    LET m == Head(scene.outbox)
    IN  /\ scene.pad.on /\ scene.outbox # <<>>
        /\ IF m.type = "clear" THEN Clear(Artist, ClientIdOf(Artist))
           ELSE IF m.type = "snapshot" THEN Snapshot(Artist, "r1", ClientIdOf(Artist), m.body)
           ELSE Relay(Artist, m.type, ClientIdOf(Artist), m.body)

\* --- history requests ---
MaxRows == 4

\* the users table: the nickname of each registered identity
Nicknames == {"ann", "bob"}
NicknameOf(u) == IF u = "u1" THEN "ann" ELSE IF u = "u2" THEN "bob" ELSE Null

\* data.blobHashes of a save_history
HashLists == {<<>>, <<"h1", "h2">>, <<"h2", "h2">>}

\* Variant of the insert loop that stores each hash once.
SaveRowsOnce(uid, rid, hashes) ==
    LET firsts == SelectSeq([k \in 1..Len(hashes) |-> <<k, hashes[k]>>],
                            LAMBDA e : \A j \in 1..(e[1] - 1) : hashes[j] # e[2])
    IN  [k \in 1..Len(firsts) |-> HistoryRow(Len(history) + k, uid, rid, firsts[k][2])]

\* data.blobHashes.forEach(hash => stmt.run(data.userId, data.roomId, hash))
SaveRows(uid, rid, hashes) ==
    [k \in 1..Len(hashes) |-> HistoryRow(Len(history) + k, uid, rid, hashes[k])]

\* case 'save_history'; shape says whether data.blobHashes is an array
SaveHistory(c, uid, rid, hashes, shape) ==
    LET data == [Data("save_history", rid, Null, shape, hashes) EXCEPT !.userId = uid]
        valid == Truthy(uid) /\ Truthy(rid) /\ shape = "array"
        rows == IF valid THEN SaveRows(uid, rid, hashes) ELSE <<>>
    IN  /\ ready[c] = "OPEN"
        /\ Len(history) + Len(rows) <= MaxRows
        /\ history' = history \o rows
        /\ inserted' = rows
        /\ Observe(c, data, currentRoom[c], <<>>)
        /\ UNCHANGED <<ready, closeHandled, currentRoom, clientId, userId, rooms, roomCanvasState,
                       roomWordCache, lastWrite, isWindows, now, files, pubs, wire, calls>>

\* the ids of the rows of the identity with this nickname
\* (FROM history h JOIN users u ON h.user_id = u.id WHERE u.nickname = ?)
RowsOf(nickname) ==
    {k \in 1..Len(history) : nickname # Null /\ NicknameOf(history[k].user_id) = nickname}

\* ORDER BY h.timestamp DESC: every arrangement of the rows in which no row
\* comes before one with a later timestamp; rows of equal timestamp come in
\* an order the query does not fix
Arrangements(ids) ==
    {f \in [1..Cardinality(ids) -> ids] :
        /\ \A a, b \in 1..Cardinality(ids) : a # b => f[a] # f[b]
        /\ \A a, b \in 1..Cardinality(ids) :
               a < b => history[f[a]].timestamp >= history[f[b]].timestamp}

\* {type: 'history_result', nickname, history: rows}; each row is shown with its
\* id, which the SELECT does not return
HistoryResult(nickname, f) ==
    [Out("history_result", Null, Null, Null, Null) EXCEPT
        !.body = [k \in 1..Len(f) |->
                     [id |-> f[k], blob_hash |-> history[f[k]].blob_hash,
                      timestamp |-> history[f[k]].timestamp, room_id |-> history[f[k]].room_id]]]

\* case 'get_history' with the answer of db.all
GetHistory(c, nickname, f) ==
    LET data == Data("get_history", Null, Null, Null, nickname)
    IN  /\ ready[c] = "OPEN"
        /\ f \in Arrangements(RowsOf(nickname))
        /\ inserted' = <<>>
        /\ Observe(c, data, currentRoom[c], Reply(c, HistoryResult(nickname, f)))
        /\ UNCHANGED <<ready, closeHandled, currentRoom, clientId, userId, rooms, roomCanvasState,
                       roomWordCache, lastWrite, isWindows, now, files, pubs, history, wire, calls>>

\* ------------------------------------------------------------------------
\* Turn clock: the Game component (src/src/components/WordSelector.tsx).
\* Times are whole seconds; ledger timestamps are microseconds.
\* ------------------------------------------------------------------------
\* seconds the drawer has to pick a word
AutoWordSeconds == 15
\* delay of the back-to-lobby retry
RetrySeconds == 2
\* microseconds per second
Micro == 1000000

\* seconds the client's clock advances per step
ClockStep == 5
\* steps the clock makes
MaxTicks == 3
\* room.secondsPerRound ?? settings.roundTime
RoundSeconds == 10
\* players in the room
NumPlayers == 2
\* the call counters saturate here
MaxCalls == 2

\* index of this client in room.players
MyIndex == 0

\* a timestamp field that is null / undefined
NoStamp == -1
\* a timestamp field parseInt turns into NaN
BadStamp == -2
\* the number NaN
NaN == BadStamp

Times == {k * ClockStep : k \in 0..MaxTicks}
Stamp(t) == t * Micro
Stamps == {Stamp(t) : t \in Times}
StampValues == Stamps \cup {NoStamp, BadStamp}
DrawerIndexes == 0..(NumPlayers - 1)


\* truthiness of room.drawerChosenAt / room.wordChosenAt
StampSet(s) == s # NoStamp

\* parseInt(x) / 1000000
ParseSec(s) == s \div Micro

\* Math.max(0, limit - Math.max(0, nowSec - parsed)), NaN for an unparseable stamp
SecondsLeft(s, limit) ==
    IF s = BadStamp THEN NaN ELSE Max(0, limit - Max(0, clock - ParseSec(s)))

\* the same value as a setTimeout delay: a NaN delay is a delay of 0
RemainingSec(s, limit) ==
    IF SecondsLeft(s, limit) = NaN THEN 0 ELSE SecondsLeft(s, limit)

\* the room a query returns; changedAt is the ledger's own time of the room's
\* last change, which the client does not read
Room(gs, idx, dAt, wAt, at) ==
    [gameState |-> gs, currentDrawerIndex |-> idx, drawerChosenAt |-> dAt, wordChosenAt |-> wAt,
     changedAt |-> at]

NullRoom == Room(Null, -1, NoStamp, NoStamp, 0)

NoTimer == [armed |-> FALSE, due |-> 0, idx |-> -1, at |-> NoStamp]
Timer(due, idx, at) == [armed |-> TRUE, due |-> due, idx |-> idx, at |-> at]

NoKey == <<>>
NoAnswer == [state |-> "none", room |-> NullRoom]
Quiet == [timer |-> "none", called |-> FALSE, idx |-> -1, at |-> NoStamp, at_clock |-> 0,
          word |-> Null]

FIXED_WORD_OPTIONS == <<"cat", "house", "tree">>

\* (wordOptions.length ? wordOptions : FIXED_WORD_OPTIONS)[0]; wordOptions is
\* either empty or FIXED_WORD_OPTIONS
FirstOption == Head(FIXED_WORD_OPTIONS)

IsWaiting(room) == room.gameState = "WaitingForWord"
IsDrawing(room) == room.gameState = "Drawing"
AwaitingWord(room) == IsWaiting(room) /\ StampSet(room.drawerChosenAt) /\ ~StampSet(room.wordChosenAt)
AmIDrawer(room) == room.currentDrawerIndex = MyIndex

InitClock(hosts) ==
    /\ alive = TRUE
    /\ clock = 0
    /\ ledger = Room("WaitingForWord", 0, Stamp(0), NoStamp, 0)
    /\ queries = [s \in {"main", "retry"} |-> NoAnswer]
    /\ retryTimeout = NoTimer
    /\ roomRef = NullRoom
    /\ pendingRender = FALSE
    /\ showWordSelector = FALSE
    /\ timeLeft = RoundSeconds
    /\ isHost \in hosts
    /\ autoWordTimeout = NoTimer
    /\ autoDrawerTimeout = NoTimer
    /\ autoDrawerScheduleKey = NoKey
    /\ chooseDrawerInFlight = FALSE
    /\ wordMutation = FALSE
    /\ autoWordCalls = [s \in StampValues |-> 0]
    /\ autoDrawerCalls = [k \in DrawerIndexes \X StampValues |-> 0]
    /\ fired = Quiet
    /\ timers = [word |-> 0, drawer |-> 0]

serverVars == <<relayVars, pubVars, scene>>

\* --- the ledger service (outside the client) ---
\* the ledger is slow: a room changes at most once per step of the clock, and
\* a timestamp it writes is its current time unless it is missing or garbled
LedgerNewer(s) ==
    /\ clock > ledger.changedAt
    /\ s \in {Stamp(clock), NoStamp, BadStamp}

\* the ledger accepts a chooseWord
LedgerChooseWord(s) ==
    /\ IsWaiting(ledger)
    /\ LedgerNewer(s)
    /\ ledger' = [ledger EXCEPT !.gameState = "Drawing", !.wordChosenAt = s, !.changedAt = clock]
    /\ fired' = Quiet
    /\ UNCHANGED <<serverVars, alive, clock, queries, retryTimeout, roomRef, pendingRender,
                   showWordSelector, timeLeft, isHost, autoWordTimeout, autoDrawerTimeout,
                   autoDrawerScheduleKey, chooseDrawerInFlight, wordMutation,
                   autoWordCalls, autoDrawerCalls, timers>>

\* the ledger accepts a chooseDrawer: the next player draws
LedgerChooseDrawer(s) ==
    /\ IsDrawing(ledger)
    /\ LedgerNewer(s)
    /\ ledger' = Room("WaitingForWord", (ledger.currentDrawerIndex + 1) % NumPlayers, s, NoStamp,
                      clock)
    /\ fired' = Quiet
    /\ UNCHANGED <<serverVars, alive, clock, queries, retryTimeout, roomRef, pendingRender,
                   showWordSelector, timeLeft, isHost, autoWordTimeout, autoDrawerTimeout,
                   autoDrawerScheduleKey, chooseDrawerInFlight, wordMutation,
                   autoWordCalls, autoDrawerCalls, timers>>

\* the ledger ends the game after the last turn
LedgerEndGame ==
    /\ IsDrawing(ledger)
    /\ ledger' = [ledger EXCEPT !.gameState = "GameEnded"]
    /\ fired' = Quiet
    /\ UNCHANGED <<serverVars, alive, clock, queries, retryTimeout, roomRef, pendingRender,
                   showWordSelector, timeLeft, isHost, autoWordTimeout, autoDrawerTimeout,
                   autoDrawerScheduleKey, chooseDrawerInFlight, wordMutation,
                   autoWordCalls, autoDrawerCalls, timers>>

\* --- effects ---
\* "Auto choose a word for drawer after 15s": the cleanup of the previous run
\* clears the timer, the body arms a new one
AutoWordEffect(room) ==
    IF room # NullRoom /\ AmIDrawer(room) /\ AwaitingWord(room)
    THEN Timer(clock + RemainingSec(room.drawerChosenAt, AutoWordSeconds), -1, room.drawerChosenAt)
    ELSE NoTimer

\* Variant of the auto drawer effect that schedules without comparing the
\* schedule key.
AutoDrawerEffectNoKey(room) ==
    LET scheduleKey == <<room.currentDrawerIndex, room.wordChosenAt>>
        keep == [timer |-> autoDrawerTimeout, key |-> autoDrawerScheduleKey]
    IN  IF room = NullRoom \/ ~isHost THEN keep
        ELSE IF IsDrawing(room) /\ StampSet(room.wordChosenAt)
             THEN [timer |-> Timer(clock + RemainingSec(room.wordChosenAt, RoundSeconds),
                                   room.currentDrawerIndex, room.wordChosenAt),
                   key |-> scheduleKey]
             ELSE [timer |-> NoTimer, key |-> NoKey]

\* "Auto advance to next drawer when drawing ends (host only)"
AutoDrawerEffect(room) ==
    LET scheduleKey == <<room.currentDrawerIndex, room.wordChosenAt>>
        keep == [timer |-> autoDrawerTimeout, key |-> autoDrawerScheduleKey]
    IN  IF room = NullRoom \/ ~isHost THEN keep
        ELSE IF IsDrawing(room) /\ StampSet(room.wordChosenAt)
             THEN IF autoDrawerScheduleKey # scheduleKey
                  THEN [timer |-> Timer(clock + RemainingSec(room.wordChosenAt, RoundSeconds),
                                        room.currentDrawerIndex, room.wordChosenAt),
                        key |-> scheduleKey]
                  ELSE keep
             ELSE [timer |-> NoTimer, key |-> NoKey]

\* clearTimeout(ref.current) under `if (ref.current)`, and window.setTimeout,
\* on the number n of pending timeouts
ClearTimeout(n, ref) == IF ref.armed THEN n - 1 ELSE n
SetTimeout(n) == n + 1

\* the pending auto word timeouts after the effect's cleanup and body
WordTimersNoClear(room) ==
    IF AutoWordEffect(room).armed THEN SetTimeout(timers.word) ELSE timers.word

WordTimers(room) ==
    LET cleaned == ClearTimeout(timers.word, autoWordTimeout)
    IN  IF AutoWordEffect(room).armed THEN SetTimeout(cleaned) ELSE cleaned

\* the pending auto drawer timeouts after the effect's body
DrawerTimers(room) ==
    IF room = NullRoom \/ ~isHost THEN timers.drawer
    ELSE IF IsDrawing(room) /\ StampSet(room.wordChosenAt)
         THEN IF autoDrawerScheduleKey # <<room.currentDrawerIndex, room.wordChosenAt>>
              THEN SetTimeout(ClearTimeout(timers.drawer, autoDrawerTimeout))
              ELSE timers.drawer
         ELSE ClearTimeout(timers.drawer, autoDrawerTimeout)

\* "Reset chooseDrawer in-flight when state transitions"
InFlightEffect(room) ==
    IF IsWaiting(room) \/ StampSet(room.wordChosenAt) THEN FALSE ELSE chooseDrawerInFlight

\* a render commits: the effects whose dependencies changed run
\* (players: all three; showWordSelector: the first; timeLeft: the second)
Effects(word, drawer, players) ==
    /\ autoWordTimeout' = IF word THEN AutoWordEffect(roomRef) ELSE autoWordTimeout
    /\ autoDrawerTimeout' = IF drawer THEN AutoDrawerEffect(roomRef).timer ELSE autoDrawerTimeout
    /\ autoDrawerScheduleKey' = IF drawer THEN AutoDrawerEffect(roomRef).key ELSE autoDrawerScheduleKey
    /\ chooseDrawerInFlight' = IF players THEN InFlightEffect(roomRef) ELSE chooseDrawerInFlight
    /\ timers' = [word |-> IF word THEN WordTimers(roomRef) ELSE timers.word,
                  drawer |-> IF drawer THEN DrawerTimers(roomRef) ELSE timers.drawer]
    /\ pendingRender' = FALSE

\* the effects of an applyRoomState run
RunEffects ==
    /\ alive
    /\ pendingRender
    /\ Effects(TRUE, TRUE, TRUE)
    /\ fired' = Quiet
    /\ UNCHANGED <<serverVars, alive, clock, ledger, queries, retryTimeout, roomRef,
                   showWordSelector, timeLeft, isHost, wordMutation,
                   autoWordCalls, autoDrawerCalls>>

\* --- queries ---
Answer(present) == IF present THEN [state |-> "room", room |-> ledger]
                              ELSE [state |-> "absent", room |-> NullRoom]

\* applyRoomState(room)
ApplyRoomState(room) ==
    /\ roomRef' = room
    /\ showWordSelector' = (AwaitingWord(room) /\ AmIDrawer(room))
    /\ pendingRender' = TRUE

\* runQuery -> queryGameState: the query is sent and answered by the ledger
QuerySend(present) ==
    /\ alive
    /\ queries["main"] = NoAnswer
    /\ queries' = [queries EXCEPT !["main"] = Answer(present)]
    /\ fired' = Quiet
    /\ UNCHANGED <<serverVars, alive, clock, ledger, retryTimeout, roomRef, pendingRender,
                   showWordSelector, timeLeft, isHost, autoWordTimeout, autoDrawerTimeout,
                   autoDrawerScheduleKey, chooseDrawerInFlight, wordMutation,
                   autoWordCalls, autoDrawerCalls, timers>>

\* queryGameState after its await
QueryResolve ==
    LET answer == queries["main"]
    IN  /\ answer # NoAnswer
        /\ queries' = [queries EXCEPT !["main"] = NoAnswer]
        /\ fired' = Quiet
        /\ IF ~alive
           THEN UNCHANGED <<retryTimeout, roomRef, showWordSelector, pendingRender>>
           ELSE IF answer.state = "absent"
           THEN /\ retryTimeout' = IF roomRef # NullRoom /\ ~retryTimeout.armed
                                   THEN Timer(clock + RetrySeconds, -1, NoStamp)
                                   ELSE retryTimeout
                /\ UNCHANGED <<roomRef, showWordSelector, pendingRender>>
           ELSE /\ retryTimeout' = NoTimer
                /\ ApplyRoomState(answer.room)
        /\ UNCHANGED <<serverVars, alive, clock, ledger, timeLeft, isHost, autoWordTimeout,
                       autoDrawerTimeout, timers, autoDrawerScheduleKey, chooseDrawerInFlight,
                       wordMutation, autoWordCalls, autoDrawerCalls>>

\* the pendingBackToLobby timer fires and queries again
RetryFire(present) ==
    /\ alive
    /\ retryTimeout.armed
    /\ clock >= retryTimeout.due
    /\ queries["retry"] = NoAnswer
    /\ retryTimeout' = NoTimer
    /\ queries' = [queries EXCEPT !["retry"] = Answer(present)]
    /\ fired' = Quiet
    /\ UNCHANGED <<serverVars, alive, clock, ledger, roomRef, pendingRender,
                   showWordSelector, timeLeft, isHost, autoWordTimeout, autoDrawerTimeout,
                   autoDrawerScheduleKey, chooseDrawerInFlight, wordMutation,
                   autoWordCalls, autoDrawerCalls, timers>>

\* the retry after its await: cleanupRoomSession and back to the lobby, or
\* applyRoomState(roomAfter)
RetryResolve ==
    LET answer == queries["retry"]
    IN  /\ answer # NoAnswer
        /\ queries' = [queries EXCEPT !["retry"] = NoAnswer]
        /\ fired' = Quiet
        /\ IF ~alive
           THEN UNCHANGED <<alive, roomRef, showWordSelector, pendingRender, autoWordTimeout,
                            autoDrawerTimeout, timers, autoDrawerScheduleKey,
                            chooseDrawerInFlight>>
           ELSE IF answer.state = "absent"
           THEN /\ alive' = FALSE
                /\ autoWordTimeout' = NoTimer
                /\ autoDrawerTimeout' = NoTimer
                /\ timers' = [word |-> ClearTimeout(timers.word, autoWordTimeout),
                              drawer |-> ClearTimeout(timers.drawer, autoDrawerTimeout)]
                /\ autoDrawerScheduleKey' = NoKey
                /\ chooseDrawerInFlight' = FALSE
                /\ showWordSelector' = FALSE
                /\ pendingRender' = FALSE
                /\ UNCHANGED roomRef
           ELSE /\ ApplyRoomState(answer.room)
                /\ UNCHANGED <<alive, autoWordTimeout, autoDrawerTimeout, timers,
                               autoDrawerScheduleKey, chooseDrawerInFlight>>
        /\ UNCHANGED <<serverVars, clock, ledger, retryTimeout, timeLeft, isHost,
                       wordMutation, autoWordCalls, autoDrawerCalls>>

\* --- timers ---
Bump(f, k) == [f EXCEPT ![k] = Min(@ + 1, MaxCalls)]

\* the auto word timer fires
\* handleChooseWord(choice) unless the latest room has a wordChosenAt
AutoWordFire ==
    LET call == ~StampSet(roomRef.wordChosenAt)
        key == autoWordTimeout.at
    IN  /\ alive
        /\ autoWordTimeout.armed
        /\ clock >= autoWordTimeout.due
        /\ autoWordTimeout' = NoTimer
        /\ timers' = [timers EXCEPT !.word = @ - 1]
        /\ autoWordCalls' = IF call THEN Bump(autoWordCalls, key) ELSE autoWordCalls
        /\ wordMutation' = (wordMutation \/ call)
        /\ fired' = [timer |-> "word", called |-> call, idx |-> roomRef.currentDrawerIndex,
                     at |-> key, at_clock |-> clock,
                     word |-> IF call THEN FirstOption ELSE Null]
        /\ UNCHANGED <<serverVars, alive, clock, ledger, queries, retryTimeout, roomRef,
                       pendingRender, showWordSelector, timeLeft, isHost, autoDrawerTimeout,
                       autoDrawerScheduleKey, chooseDrawerInFlight, autoDrawerCalls>>

\* handleChooseWord after its await: setShowWordSelector(false) on success
ChooseWordReturns(ok) ==
    /\ wordMutation
    /\ wordMutation' = FALSE
    /\ fired' = Quiet
    /\ IF alive /\ ok /\ showWordSelector
       THEN /\ showWordSelector' = FALSE
            /\ Effects(TRUE, pendingRender, pendingRender)
       ELSE UNCHANGED <<showWordSelector, autoWordTimeout, autoDrawerTimeout, timers,
                        autoDrawerScheduleKey, chooseDrawerInFlight, pendingRender>>
    /\ UNCHANGED <<serverVars, alive, clock, ledger, queries, retryTimeout, roomRef,
                   timeLeft, isHost, autoWordCalls, autoDrawerCalls>>

\* the auto drawer timer fires
\* handleChooseDrawer('auto_drawing_timer') if the latest room is the scheduled turn
AutoDrawerFire ==
    LET latest == roomRef
        scheduled == autoDrawerTimeout
        same == /\ latest # NullRoom
                /\ IsDrawing(latest)
                /\ latest.currentDrawerIndex = scheduled.idx
                /\ latest.wordChosenAt = scheduled.at
        call == same /\ isHost /\ ~AwaitingWord(latest) /\ ~chooseDrawerInFlight
    IN  /\ alive
        /\ scheduled.armed
        /\ clock >= scheduled.due
        /\ autoDrawerTimeout' = NoTimer
        /\ timers' = [timers EXCEPT !.drawer = @ - 1]
        /\ chooseDrawerInFlight' = (chooseDrawerInFlight \/ call)
        /\ autoDrawerCalls' = IF call THEN Bump(autoDrawerCalls, <<scheduled.idx, scheduled.at>>)
                                      ELSE autoDrawerCalls
        /\ fired' = [timer |-> "drawer", called |-> call, idx |-> scheduled.idx,
                     at |-> scheduled.at, at_clock |-> clock, word |-> Null]
        /\ UNCHANGED <<serverVars, alive, clock, ledger, queries, retryTimeout, roomRef,
                       pendingRender, showWordSelector, timeLeft, isHost, autoWordTimeout,
                       autoDrawerScheduleKey, wordMutation, autoWordCalls>>

\* --- the clock ---
ClockTick ==
    /\ clock + ClockStep <= MaxTicks * ClockStep
    /\ clock' = clock + ClockStep
    /\ fired' = Quiet
    /\ UNCHANGED <<serverVars, alive, ledger, queries, retryTimeout, roomRef, pendingRender,
                   showWordSelector, timeLeft, isHost, autoWordTimeout, autoDrawerTimeout,
                   autoDrawerScheduleKey, chooseDrawerInFlight, wordMutation,
                   autoWordCalls, autoDrawerCalls, timers>>

\* the value tick() hands to setTimeLeft
TimeLeftNow ==
    IF roomRef = NullRoom THEN timeLeft
    ELSE IF AwaitingWord(roomRef) THEN SecondsLeft(roomRef.drawerChosenAt, AutoWordSeconds)
    ELSE IF IsDrawing(roomRef) /\ StampSet(roomRef.wordChosenAt)
         THEN SecondsLeft(roomRef.wordChosenAt, RoundSeconds)
    ELSE RoundSeconds

\* "Smooth timer tick every second": a changed timeLeft renders again
DisplayTick ==
    /\ alive
    /\ timeLeft' = TimeLeftNow
    /\ fired' = Quiet
    /\ IF TimeLeftNow # timeLeft
       THEN Effects(pendingRender, TRUE, pendingRender)
       ELSE UNCHANGED <<autoWordTimeout, autoDrawerTimeout, timers, autoDrawerScheduleKey,
                        chooseDrawerInFlight, pendingRender>>
    /\ UNCHANGED <<serverVars, alive, clock, ledger, queries, retryTimeout, roomRef,
                   showWordSelector, isHost, wordMutation, autoWordCalls, autoDrawerCalls>>

\* ------------------------------------------------------------------------
\* The relay under live drawing traffic: three connections join, leave and
\* draw; one of them may drop.
\* ------------------------------------------------------------------------
Droppers == {"c3"}

NextRelay ==
    \/ \E c \in Conns, r \in RoomIds : Join(c, r, Null)
    \/ \E c \in Conns, type \in RelayedTypes \ {"clear"}, body \in Bodies : Relay(c, type, Null, body)
    \/ \E c \in Conns : Clear(c, Null)
    \/ \E c \in Conns : Leave(c)
    \/ \E c \in Droppers : SocketClose(c)
    \/ \E c \in Conns : OnClose(c)

vars == <<relayVars, pubVars, clockVars, scene>>

Init == InitRelay(Conns, MonOff) /\ InitPub({FALSE}) /\ InitClock({FALSE}) /\ InitScene(FALSE)

Next == NextRelay

Spec == Init /\ [][Next]_vars

\* ------------------------------------------------------------------------
\* The relay under catch-up traffic: two connections join, snapshot, clear
\* and ask for the canvas state.
\* ------------------------------------------------------------------------
SyncConns == {"c1", "c2"}

InitSync == InitRelay(SyncConns, MonIdle) /\ InitPub({FALSE}) /\ InitClock({FALSE}) /\ InitScene(FALSE)

NextSync ==
    \/ \E c \in SyncConns, r \in RoomIds : Join(c, r, Null)
    \/ \E c \in SyncConns, r \in RoomInputs : RequestSync(c, r)
    \/ \E c \in SyncConns, r \in RoomInputs, image \in Images \cup {Empty} : Snapshot(c, r, Null, image)
    \/ \E c \in SyncConns : Clear(c, Null)
    \/ \E c \in SyncConns : Relay(c, "draw", Null, "seg1")
    \/ \E c \in SyncConns : Leave(c)

SpecSync == InitSync /\ [][NextSync]_vars

\* ------------------------------------------------------------------------
\* The archive pipeline: two connections of one room publish, possibly at the
\* same time, on either platform.
\* ------------------------------------------------------------------------
PubConns == {"c1", "c2"}

InitPublish == InitRelay(PubConns, MonOff) /\ InitPub(BOOLEAN) /\ InitClock({FALSE}) /\ InitScene(FALSE)

\* the publish_blob messages a client sends: enriched, legacy, or neither
PubInputs == {<<"payload", TurnMeta>>, <<"image", NoMeta>>, <<"none", NoMeta>>}

NextPublish ==
    \/ \E i \in PubIds, c \in PubConns, in \in PubInputs : PublishBlob(i, c, in[1], in[2])
    \/ \E i \in PubIds : CmdRun(i)
    \/ \E i \in PubIds, outcome \in {"ok", "error", "garbled"} : CmdExit(i, outcome)
    \/ Tick
    \/ \E c \in PubConns : ClientRecv(c)

SpecPublish == InitPublish /\ [][NextPublish]_vars

\* ------------------------------------------------------------------------
\* Archive and history: connections with identities move between two rooms
\* while blobs are published.
\* ------------------------------------------------------------------------
InitHistory == InitRelay(PubConns, MonOff) /\ InitPub({FALSE}) /\ InitClock({FALSE}) /\ InitScene(FALSE)

NextHistory ==
    \/ \E c \in PubConns, r \in RoomIds, uid \in UserIds \cup {Null} : Join(c, r, uid)
    \/ \E c \in PubConns : Leave(c)
    \/ \E c \in PubConns : PublishBlob("p1", c, "image", NoMeta)
    \/ CmdRun("p1")
    \/ \E outcome \in {"ok", "error"} : CmdExit("p1", outcome)

SpecHistory == InitHistory /\ [][NextHistory]_vars

\* ------------------------------------------------------------------------
\* Word assertions and enriched archives: one connection declares words and
\* publishes payloads whose round, drawer and turn may or may not agree.
\* ------------------------------------------------------------------------
WordConns == {"c1"}
Rounds == {Null, "2"}
DrawerIds == {Null, "D"}
TurnIds == {Null, "T"}

\* payload.meta as handleChooseDrawer builds it: an absent id is "" there
WordMetas == {[has |-> TRUE, word |-> w, round |-> n, drawerId |-> d, turnId |-> t] :
                 w \in {Empty, Blank}, n \in {Null, "2", "3"},
                 d \in {Empty, "D", "E"}, t \in {Empty, "T", "U"}}

InitWord == InitRelay(WordConns, MonOff) /\ InitPub({FALSE}) /\ InitClock({FALSE}) /\ InitScene(FALSE)

NextWord ==
    \/ \E c \in WordConns : Join(c, "r1", Null)
    \/ \E c \in WordConns : Leave(c)
    \/ \E c \in WordConns, r \in {Empty, "r1"}, w \in {"cat", Blank}, n \in Rounds,
          d \in DrawerIds, t \in TurnIds : SetWord(c, r, w, n, d, t)
    \/ \E c \in WordConns, meta \in WordMetas : PublishBlob("p1", c, "payload", meta)
    \/ CmdRun("p1")
    \/ \E outcome \in {"ok", "error"} : CmdExit("p1", outcome)

SpecWord == InitWord /\ [][NextWord]_vars

\* ------------------------------------------------------------------------
\* Word assertions consumed by publishes: one connection declares the word
\* of a turn and publishes archives with or without metadata, whose own word
\* and turn may or may not be those of the assertion.
\* ------------------------------------------------------------------------
ConsumeMetas == {[has |-> TRUE, word |-> w, round |-> Null, drawerId |-> Empty, turnId |-> t] :
                    w \in {Empty, "cat", "dog"}, t \in {"T", "U"}}

InitConsume == InitRelay(WordConns, MonOff) /\ InitPub({FALSE}) /\ InitClock({FALSE}) /\ InitScene(FALSE)

NextConsume ==
    \/ \E c \in WordConns : Join(c, "r1", Null)
    \/ \E c \in WordConns : Leave(c)
    \/ \E c \in WordConns, w \in {"cat", Blank}, t \in {"T", "U"} :
          SetWord(c, Empty, w, Null, Null, t)
    \/ \E c \in WordConns, i \in PubIds, meta \in ConsumeMetas : PublishBlob(i, c, "payload", meta)
    \/ \E c \in WordConns, i \in PubIds : PublishBlob(i, c, "image", NoMeta)
    \/ \E i \in PubIds : CmdRun(i)
    \/ \E i \in PubIds, outcome \in {"ok", "error", "garbled"} : CmdExit(i, outcome)

SpecConsume == InitConsume /\ [][NextConsume]_vars

\* ------------------------------------------------------------------------
\* Failing publishes: a connection with an identity joins a room, declares
\* a word, stores a snapshot and publishes on either platform with every
\* outcome of the command.
\* ------------------------------------------------------------------------
InitFailure == InitRelay(WordConns, MonOff) /\ InitPub(BOOLEAN) /\ InitClock({FALSE}) /\ InitScene(FALSE)

NextFailure ==
    \/ \E c \in WordConns : currentRoom[c] = Null /\ Join(c, "r1", "u1")
    \/ \E c \in WordConns : SetWord(c, Empty, "cat", Null, Null, "T")
    \/ \E c \in WordConns : Snapshot(c, "r1", Null, "imgA")
    \/ \E c \in WordConns, i \in PubIds, in \in PubInputs : PublishBlob(i, c, in[1], in[2])
    \/ \E i \in PubIds : CmdRun(i)
    \/ \E i \in PubIds, outcome \in {"ok", "error", "garbled"} : CmdExit(i, outcome)
    \/ Tick

SpecFailure == InitFailure /\ [][NextFailure]_vars

\* ------------------------------------------------------------------------
\* The history table: one connection saves lists of hashes for two
\* identities, sends save_history messages that are not valid, and reads
\* histories back, while time passes.
\* ------------------------------------------------------------------------
InitArchive == InitRelay(WordConns, MonOff) /\ InitPub({FALSE}) /\ InitClock({FALSE}) /\ InitScene(FALSE)

NextArchive ==
    \/ \E c \in WordConns, uid \in UserIds, rid \in RoomIds, hashes \in HashLists :
          SaveHistory(c, uid, rid, hashes, "array")
    \/ \E c \in WordConns, in \in {<<Null, "array">>, <<"u1", "other">>} :
          SaveHistory(c, in[1], "r1", <<"h1">>, in[2])
    \/ \E c \in WordConns, nickname \in Nicknames \cup {"zed"} :
          \E f \in Arrangements(RowsOf(nickname)) : GetHistory(c, nickname, f)
    \/ Tick

SpecArchive == InitArchive /\ [][NextArchive]_vars

\* ------------------------------------------------------------------------
\* A turn seen from both ends: the drawer draws segments, ends each stroke
\* after at least one segment and sends its throttled snapshots; a viewer joins at any moment and applies
\* what the relay sends it.
\* ------------------------------------------------------------------------
InitSceneSpec == InitRelay({Artist, Viewer}, MonOff) /\ InitPub({FALSE}) /\ InitClock({FALSE})
                    /\ InitScene(TRUE)

NextScene ==
    \/ currentRoom[Artist] = Null /\ Join(Artist, "r1", Null)
    \/ /\ currentRoom[Artist] = "r1"
       /\ scene.segs < MaxSegs
       /\ Relay(Artist, "draw", ClientIdOf(Artist), SegNames[scene.segs + 1])
    \/ /\ currentRoom[Artist] = "r1"
       /\ scene.segs > scene.ended
       /\ Relay(Artist, "strokeEnd", ClientIdOf(Artist), Null)
    \/ scene.timer /\ Snapshot(Artist, "r1", ClientIdOf(Artist), Shot(scene.segs))
    \/ currentRoom[Viewer] = Null /\ Join(Viewer, "r1", Null)
    \/ scene.asks > 0 /\ RequestSync(Viewer, "r1")
    \/ ViewerOnMessage
    \/ \E k \in 1..MaxSegs + 2 : ViewerImageLoaded(k)

SpecScene == InitSceneSpec /\ [][NextScene]_vars

\* ------------------------------------------------------------------------
\* The canvas store: two connections that name themselves as drawer join,
\* clear, snapshot, leave and disconnect.
\* ------------------------------------------------------------------------
CanvasConns == {"c1", "c2"}

\* drawerId as Canvas.tsx sends it: the client's own id, or none
OwnDrawerIds(c) == {Null, ClientIdOf(c)}

InitCanvas == InitRelay(CanvasConns, MonOff) /\ InitPub({FALSE}) /\ InitClock({FALSE}) /\ InitScene(FALSE)

NextCanvas ==
    \/ \E c \in CanvasConns, r \in RoomIds : Join(c, r, Null)
    \/ \E c \in CanvasConns : Leave(c)
    \/ \E c \in CanvasConns : \E did \in OwnDrawerIds(c) : Clear(c, did)
    \/ \E c \in CanvasConns, r \in RoomInputs, image \in Images \cup {Empty} :
          \E did \in OwnDrawerIds(c) : Snapshot(c, r, did, image)
    \/ \E c \in {"c2"} : SocketClose(c)
    \/ \E c \in CanvasConns : OnClose(c)

SpecCanvas == InitCanvas /\ [][NextCanvas]_vars

\* ------------------------------------------------------------------------
\* Two connections of one room mix messages the relay cannot handle with
\* ordinary traffic.
\* ------------------------------------------------------------------------
InitNoise == InitRelay(CanvasConns, MonOff) /\ InitPub({FALSE}) /\ InitClock({FALSE}) /\ InitScene(FALSE)

NextNoise ==
    \/ \E c \in CanvasConns : Join(c, "r1", "u1")
    \/ \E c \in CanvasConns : Leave(c)
    \/ \E c \in CanvasConns, type \in {"malformed", "unknown"} : Unhandled(c, type)
    \/ \E c \in CanvasConns, image \in Images : Snapshot(c, Empty, Null, image)
    \/ \E c \in CanvasConns : Clear(c, Null)
    \/ \E c \in CanvasConns : SetWord(c, Empty, "cat", Null, Null, "T")
    \/ \E c \in CanvasConns : PublishBlob("p1", c, "image", NoMeta)
    \/ CmdRun("p1")
    \/ CmdExit("p1", "ok")

SpecNoise == InitNoise /\ [][NextNoise]_vars

\* ------------------------------------------------------------------------
\* The turn clock of one client (player 0, host or not) against a ledger
\* that moves through the turns while queries are answered and delivered.
\* ------------------------------------------------------------------------
InitClockSpec == InitRelay({}, MonOff) /\ InitPub({FALSE}) /\ InitClock(BOOLEAN) /\ InitScene(FALSE)

NextClock ==
    \/ \E s \in {Stamp(clock)} : LedgerChooseWord(s)
    \/ \E s \in {Stamp(clock)} : LedgerChooseDrawer(s)
    \/ LedgerEndGame
    \/ \E present \in BOOLEAN : QuerySend(present)
    \/ QueryResolve
    \/ \E present \in BOOLEAN : RetryFire(present)
    \/ RetryResolve
    \/ RunEffects
    \/ AutoWordFire
    \/ \E ok \in BOOLEAN : ChooseWordReturns(ok)
    \/ AutoDrawerFire
    \/ ClockTick
    \/ DisplayTick

SpecClock == InitClockSpec /\ [][NextClock]_vars

\* ------------------------------------------------------------------------
\* The turn clock against a ledger whose timestamps may be missing or not
\* numeric; every query is answered with the room.
\* ------------------------------------------------------------------------
LedgerStamps == {Stamp(clock), NoStamp, BadStamp}

NextClockBad ==
    \/ \E s \in LedgerStamps : LedgerChooseWord(s)
    \/ \E s \in LedgerStamps : LedgerChooseDrawer(s)
    \/ LedgerEndGame
    \/ QuerySend(TRUE)
    \/ QueryResolve
    \/ RunEffects
    \/ AutoWordFire
    \/ \E ok \in BOOLEAN : ChooseWordReturns(ok)
    \/ AutoDrawerFire
    \/ ClockTick
    \/ DisplayTick

SpecClockBad == InitClockSpec /\ [][NextClockBad]_vars

\* ------------------------------------------------------------------------
\* Properties of the relay.
\* ------------------------------------------------------------------------
SentRecipients == {sent[i].to : i \in 1..Len(sent)}

\* C1: a draw, fill, undo, strokeEnd or clear is delivered exactly once to every
\* other open connection registered in the sender's room, never to the sender
\* and never to a connection registered only in another room.
C1_RelayToRoomOthers ==
    last.data.type \in RelayedTypes =>
        LET c == last.conn
            R == currentRoom[c]
            others == {d \in Conns \ {c} :
                          Truthy(R) /\ rooms[R].members[d].present /\ ready[d] = "OPEN"}
        IN  /\ SentRecipients = others
            /\ Len(sent) = Cardinality(others)
            /\ c \notin SentRecipients
            /\ \A i \in 1..Len(sent) :
                   /\ sent[i].msg.type = last.data.type
                   /\ sent[i].msg.drawerId = last.data.drawerId
                   /\ last.data.type \in {"draw", "fill"} => sent[i].msg.body = last.data.body
            /\ \A d \in Conns :
                   (~Truthy(R) \/ ~rooms[R].members[d].present) => d \notin SentRecipients

\* C1 witness: a draw reached a room mate while an open connection registered
\* only in the other room got nothing.
C1_Witness ==
    /\ last.data.type = "draw"
    /\ Len(sent) >= 1
    /\ \E d \in Conns \ {last.conn} :
           /\ ready[d] = "OPEN"
           /\ \E r \in RoomIds : r # currentRoom[last.conn] /\ rooms[r].members[d].present
           /\ ~rooms[currentRoom[last.conn]].members[d].present
           /\ d \notin SentRecipients

\* C2: the relay answers a join for room R with `joined` and then R's current
\* canvas state (sync for a snapshot, sync_clear for blank), in that order, and
\* sends the joiner nothing else in between.
C2_JoinedThenSync ==
    (last.data.type = "join" /\ last.data.roomId \in RoomIds) =>
        LET got == SentTo(sent, last.conn)
            state == roomCanvasState[last.data.roomId]
        IN  /\ Len(got) = 2
            /\ got[1].type = "joined"
            /\ got[1].roomId = last.data.roomId
            /\ state.kind \in {"blank", "image"}
            /\ state.kind = "image" => (got[2].type = "sync" /\ got[2].image = state.image)
            /\ state.kind = "blank" => got[2].type = "sync_clear"

\* C2 witness: a late joiner of a room with a recorded snapshot.
C2_Witness ==
    /\ last.data.type = "join"
    /\ Len(sent) = 2
    /\ sent[2].msg.type = "sync"
    /\ sent[2].msg.image \in Images

\* C3 (as claimed): join followed by one request_sync, no draw traffic in
\* between, yields exactly one sync / sync_clear in total.
C3_Original ==
    (mon.phase = "joined" /\ mon.reqs = 1) => mon.syncs = 1

\* C3 (amended): join followed by k request_sync messages for the joined room,
\* no draw traffic in between, yields exactly 1 + k sync / sync_clear messages,
\* and the first message sent after the join is `joined`.
C3_SyncPerJoinAndRequest ==
    /\ mon.phase = "joined" => mon.syncs = 1 + mon.reqs
    /\ (last.data.type = "join" /\ last.data.roomId \in RoomIds) =>
           Head(SentTo(sent, last.conn)).type = "joined"

\* C3 witness: the probe joined, asked once, and holds two canvas states.
C3_Witness ==
    /\ mon.phase = "joined"
    /\ mon.reqs = 1
    /\ mon.syncs = 2
    /\ last.data.type = "request_sync"
    /\ last.conn = Probe

\* C4: every sync / sync_clear sent for a room reflects the last clear or
\* snapshot processed for it: sync_clear after a clear or when neither ever
\* happened, sync with exactly the snapshot's image otherwise.
C4_SyncReflectsLastWrite ==
    \A i \in 1..Len(sent) :
        sent[i].msg.type \in SyncTypes =>
            LET w == lastWrite[last.room]
            IN  /\ w.kind = "image" => (sent[i].msg.type = "sync" /\ sent[i].msg.image = w.image)
                /\ w.kind \in {"none", "blank"} => sent[i].msg.type = "sync_clear"

\* C4 witness: a request_sync answered with the second of two snapshots.
C4_Witness ==
    /\ last.data.type = "request_sync"
    /\ Len(sent) = 1
    /\ sent[1].msg.type = "sync"
    /\ sent[1].msg.image = "imgB"
    /\ lastWrite[last.room].image = "imgB"

\* ------------------------------------------------------------------------
\* Properties of the archive pipeline.
\* ------------------------------------------------------------------------
\* C5 (as claimed): a publish_blob request whose connection is open has, once
\* no invocation of it is pending any more, received exactly one reply
\* (blob_published or blob_error).
C5_Original ==
    \A i \in PubIds :
        (pubs[i].stage = "done" /\ ready[pubs[i].conn] = "OPEN") => pubs[i].replies = 1

CountRows(rows, row) == Cardinality({k \in 1..Len(rows) : Inserted(rows[k]) = row})

\* identity u has a live connection whose room is r
Connected(u, r) ==
    \E c \in Conns :
        /\ ready[c] = "OPEN"
        /\ currentRoom[c] = r
        /\ rooms[r].members[c].present
        /\ userId[c] = u

\* C9 (as claimed): a successful publish inserts exactly one row
\* (identity, room, hash) for every identity connected to the requester's
\* room and no row for any other identity or room.
C9_Original ==
    (last.data.type = "exec_callback" /\ last.data.clientId = "ok") =>
        LET p == pubs[last.data.body]
            hash == HashOf(p.readContent)
        IN  /\ \A u \in UserIds, r \in RoomIds :
                   CountRows(inserted, [user_id |-> u, room_id |-> r, blob_hash |-> hash])
                     = IF r = currentRoom[p.conn] /\ Connected(u, r) THEN 1 ELSE 0
            /\ \A k \in 1..Len(inserted) : inserted[k].blob_hash = hash

\* C10 (as claimed): of two publish_blob requests with different images, each
\* command is handed an artifact with the request's own image and each
\* publishBlob call resolves with the hash of its own artifact.
C10_Original ==
    \A i \in PubIds :
        /\ \A k \in 1..Len(pubs[i].handed) :
               pubs[i].handed[k] # NoFile => pubs[i].handed[k].image = ImageOf(i)
        /\ calls[i].state = "resolved" => calls[i].hash = HashOf(Content(ImageOf(i), pubs[i].meta))

\* C7: for each drawerChosenAt value the drawer's client invokes the automatic
\* word submission at most once, however many state updates it observes while
\* the phase is still WaitingForWord without a wordChosenAt.
C7_Original == \A s \in StampValues : autoWordCalls[s] <= 1

\* C8: for each (drawerIndex, wordChosenAt) pair the host's client invokes the
\* automatic drawer advance at most once, whatever redundant, duplicate or
\* stale observations of that turn arrive, also after the action has fired.
C8_Original == \A k \in DrawerIndexes \X StampValues : autoDrawerCalls[k] <= 1

\* the assertion field and the metadata field agree: one of them is absent,
\* or both carry the same value
FieldAgrees(a, m) == ~Truthy(a) \/ ~Truthy(m) \/ a = m

AssertionMatches(a, m) ==
    /\ FieldAgrees(a.round, m.round)
    /\ FieldAgrees(a.drawerId, m.drawerId)
    /\ FieldAgrees(a.turnId, m.turnId)

\* the publish_blob the last step handled, if it carried a payload
PayloadHandled(i) ==
    last.data.type = "publish_blob" /\ last.data.body = i /\ last.data.clientId = "payload"

AssertionOf(c) == IF Truthy(currentRoom[c]) THEN roomWordCache[currentRoom[c]] ELSE NoWord

\* C11: a publish_blob payload whose metadata word is empty is written out with
\* the word of the room's pending word assertion when round, drawerId and
\* turnId each agree (equal, or absent on a side); with a field that differs
\* or without an assertion the word stays empty; the publish proceeds.
C11_BackfillWord ==
    \A i \in PubIds :
        (PayloadHandled(i) /\ pubs[i].given.word = Empty) =>
            LET a == AssertionOf(last.conn)
            IN  /\ pubs[i].stage = "spawned"
                /\ files[pubs[i].tempFile].meta.word =
                       IF a.has /\ AssertionMatches(a, pubs[i].given) THEN a.word ELSE Empty
                /\ files[pubs[i].tempFile].image = ImageOf(i)

C11_Witness ==
    /\ PayloadHandled("p1")
    /\ pubs["p1"].given.word = Empty
    /\ pubs["p1"].given.turnId = "T"
    /\ AssertionOf(last.conn).turnId = "T"
    /\ files[pubs["p1"].tempFile].meta.word = "cat"

\* the rooms of the session registry that hold connection c
RegisteredRooms(c) == {r \in RoomIds : RoomsHas(r) /\ c \in Members(r)}

\* C12 (as claimed): whatever joins and leaves a connection has sent, it is
\* registered in at most one room.
C12_Original == \A c \in Conns : Cardinality(RegisteredRooms(c)) <= 1

SnapshotState(image, drawerId) == [kind |-> "image", image |-> image, drawerId |-> drawerId]

\* the sender of the last message is known to the relay: it has joined, or
\* the message names its drawer
SenderKnown(msg) == Truthy(msg.data.drawerId) \/ Truthy(clientId[msg.conn])

C15_Original ==
    [][\A r \in RoomIds :
          (last'.data.type \in {"leave", "close"} /\ RoomsHas(r) /\ Members(r) = {last'.conn}) =>
              /\ ~rooms'[r].has
              /\ roomCanvasState'[r] = roomCanvasState[r]]_vars

\* the last message was one the relay cannot handle
Unprocessable == last.data.type \in {"malformed", "unknown"}

\* C16: a message that is not valid JSON or has an unknown type changes no
\* relay state (registry, canvas states, pending words, history), is answered
\* with no message to anybody, and leaves the sender's connection open, with
\* its next message still processed.
C16_UnhandledIsIgnored ==
    /\ [][Unprocessable' =>
            /\ sent' = <<>>
            /\ UNCHANGED <<ready, currentRoom, clientId, userId, rooms, roomCanvasState,
                           roomWordCache, history, wire, pubs, files>>]_vars
    /\ [](Unprocessable =>
            /\ ready[last.conn] = "OPEN"
            /\ ENABLED Join(last.conn, "r1", Null))

C16_Witness ==
    /\ Unprocessable
    /\ RoomsHas("r1")
    /\ \E d \in Members("r1") : d # last.conn /\ ready[d] = "OPEN"
    /\ roomCanvasState["r1"].kind = "image"
    /\ roomWordCache["r1"].has
    /\ history # <<>>

\* a timestamp that is missing or is not a number
Unusable(s) == s \in {NoStamp, BadStamp}

\* C17 (as claimed): for an observation whose drawerChosenAt (auto word) or
\* wordChosenAt (auto drawer) is missing or not a number, no timer is armed
\* once its effects have run and no action is ever fired.
C17_Original ==
    /\ (~pendingRender /\ IsWaiting(roomRef) /\ Unusable(roomRef.drawerChosenAt))
           => ~autoWordTimeout.armed
    /\ (~pendingRender /\ IsDrawing(roomRef) /\ Unusable(roomRef.wordChosenAt))
           => ~autoDrawerTimeout.armed
    /\ \A s \in {NoStamp, BadStamp} :
           /\ autoWordCalls[s] = 0
           /\ \A idx \in DrawerIndexes : autoDrawerCalls[<<idx, s>>] = 0

\* the step just taken was the auto word timer calling handleChooseWord
WordFired == fired.timer = "word" /\ fired.called

\* C18 (as claimed): the automatic word submission is made only while the
\* client is the current drawer, not before 15 seconds of the local clock have
\* passed since drawerChosenAt, never when the latest observed state has a
\* wordChosenAt, and with the first word option.
C18_Original ==
    WordFired =>
        /\ AmIDrawer(roomRef)
        /\ StampSet(roomRef.drawerChosenAt)
        /\ clock >= ParseSec(roomRef.drawerChosenAt) + AutoWordSeconds
        /\ ~StampSet(roomRef.wordChosenAt)
        /\ fired.word = Head(FIXED_WORD_OPTIONS)

\* the step just taken was the auto drawer timer calling handleChooseDrawer
DrawerFired == fired.timer = "drawer" /\ fired.called

\* at least limit seconds of the local clock have passed since the stamp s
Elapsed(s, limit) == ~Unusable(s) /\ clock - ParseSec(s) >= limit

\* C19 (as claimed): the automatic drawer advance is made only on the host's
\* client, only when the round duration has elapsed since the wordChosenAt it
\* was scheduled for, and only while the latest observed state is Drawing with
\* the drawerIndex and wordChosenAt it was scheduled for.
C19_Original ==
    DrawerFired =>
        /\ isHost
        /\ Elapsed(fired.at, RoundSeconds)
        /\ IsDrawing(roomRef)
        /\ roomRef.currentDrawerIndex = fired.idx
        /\ roomRef.wordChosenAt = fired.at

\* the phase the auto word timer is scheduled for
WordPhase(room) == IsWaiting(room) /\ ~StampSet(room.wordChosenAt)

\* the effects of the latest observation have run
Observed == roomRef # NullRoom /\ ~pendingRender

\* C20 (as claimed): once the latest observed state is in another phase than
\* the one a timer is scheduled for, the timer is no longer pending and its
\* action is not fired.
C20_Original ==
    /\ (Observed /\ ~WordPhase(roomRef)) => ~autoWordTimeout.armed
    /\ (Observed /\ ~IsDrawing(roomRef)) => ~autoDrawerTimeout.armed
    /\ WordFired => WordPhase(roomRef)
    /\ DrawerFired => IsDrawing(roomRef)

\* C21: the window never holds more than one pending auto word timeout nor
\* more than one pending auto drawer timeout, and the one it holds is the one
\* the ref points at.
C21_OnePendingTimer ==
    /\ timers.word <= 1
    /\ timers.drawer <= 1
    /\ timers.word = (IF autoWordTimeout.armed THEN 1 ELSE 0)
    /\ timers.drawer = (IF autoDrawerTimeout.armed THEN 1 ELSE 0)

\* an auto word timer armed by an observation made after the turn began is
\* pending, the effects of every observation having run
C21_Witness ==
    /\ timers.word = 1
    /\ autoWordTimeout.armed
    /\ autoWordTimeout.due > clock
    /\ clock > ParseSec(autoWordTimeout.at)
    /\ ~pendingRender

\* the exec callback of publish i has just run with this outcome
Returned(i, outcome) ==
    last.data.type = "exec_callback" /\ last.data.body = i /\ last.data.clientId = outcome

\* C22 (as claimed): a room's pending word assertion disappears only in the
\* exec callback of a successful publish made by a connection of that room
\* with metadata, whose archive carries the assertion's word and whose round,
\* drawerId and turnId agree with the assertion's.
C22_Original ==
    [][\A r \in RoomIds :
          (roomWordCache[r].has /\ ~roomWordCache'[r].has) =>
              \E i \in PubIds :
                  /\ Returned(i, "ok")'
                  /\ last'.room = r
                  /\ pubs[i].given.has
                  /\ pubs[i].readContent.meta.word = roomWordCache[r].word
                  /\ AssertionMatches(roomWordCache[r], pubs[i].given)]_vars

\* the assertion a set_word message declares, as the relay stores it
Declared(m, c) ==
    [has |-> TRUE, word |-> StrTrim(m.body), round |-> RoundOf(m.clientId),
     drawerId |-> OrElse(m.drawerId, clientId[c]), turnId |-> OrElse(StrTrim(m.userId), Null)]

\* C23: a set_word for a room with a non-empty word makes its declaration the
\* room's one pending word assertion, whatever assertion the room had; a
\* set_word with an empty word or for no room changes no assertion; and no
\* set_word touches another room's assertion.
C23_LatestWordWins ==
    [][last'.data.type = "set_word" =>
          LET r == OrElse(last'.data.roomId, last'.room)
          IN  IF Truthy(r) /\ Truthy(StrTrim(last'.data.body))
              THEN /\ roomWordCache'[r] = Declared(last'.data, last'.conn)
                   /\ \A o \in DOMAIN roomWordCache \ {r} : roomWordCache'[o] = roomWordCache[o]
              ELSE roomWordCache' = roomWordCache]_vars

\* a set_word with round 2 has replaced the assertion without a round that a
\* publish still in progress was backfilled from
C23_Witness ==
    /\ last.data.type = "set_word"
    /\ last.data.clientId = "2"
    /\ roomWordCache["r1"].has
    /\ roomWordCache["r1"].round = "2"
    /\ pubs["p1"].stage = "spawned"
    /\ pubs["p1"].given.round = "3"
    /\ pubs["p1"].meta.word = "cat"

\* C24 (as claimed): when the command of a publish succeeds, every identity
\* that was connected to the requester's room when the publish_blob was
\* received gets a history row for the hash, whether or not its connection is
\* still in the room.
C24_Original ==
    [][\A i \in PubIds :
          Returned(i, "ok")' =>
              \A u \in pubs[i].witnesses :
                  \E k \in 1..Len(inserted') :
                      /\ inserted'[k].user_id = u
                      /\ inserted'[k].blob_hash = HashOf(pubs[i].readContent)]_vars

\* no publish request has a command outstanding
NoCommandOutstanding == \A i \in PubIds : pubs[i].stage \in {"idle", "done"}

\* C25: when the command of a publish attempt returns, with success, with an
\* error or with output that cannot be parsed, the file written for that
\* attempt is gone (the only file of that name that can exist is the one just
\* written for the retry); and with no command outstanding no temporary file
\* exists at all.
C25_TempFileRemoved ==
    /\ [][\A i \in PubIds :
            (last'.data.type = "exec_callback" /\ last'.data.body = i) =>
                \/ files'[pubs[i].tempFile] = NoFile
                \/ /\ pubs'[i].stage = "spawned"
                   /\ pubs'[i].tempFile = pubs[i].tempFile
                   /\ files'[pubs[i].tempFile] = Content(pubs[i].image, pubs[i].meta)]_vars
    /\ [](NoCommandOutstanding => \A name \in DOMAIN files : files[name] = NoFile)

\* both requests have been answered, the first one after a retry
C25_Witness ==
    /\ pubs["p1"].stage = "done"
    /\ pubs["p1"].attempt = 2
    /\ pubs["p2"].stage = "done"
    /\ last.data.type = "exec_callback"

\* the history_result the last step sent
Result == sent[1].msg.body

GotHistory == last.data.type = "get_history" /\ sent # <<>>

C27_Original ==
    GotHistory => \A a, b \in 1..Len(Result) : a < b => Result[a].id > Result[b].id

\* C28 (as claimed): the viewer paints the image of a sync before it applies
\* any event it received after that sync: no image is still waiting to be
\* painted once a later event has been applied.
C28_Original ==
    \A k \in 1..Len(scene.loads) : scene.loads[k].since = {}

\* --- a turn ends: the next drawer clears while the previous drawer's
\* snapshot timer may still be pending or its snapshot on its way ---
NextTurn ==
    \/ \E c \in {Artist, Viewer} : currentRoom[c] = Null /\ Join(c, "r1", Null)
    \/ /\ currentRoom[Artist] = "r1" /\ scene.segs < MaxSegs
       /\ Relay(Artist, "draw", ClientIdOf(Artist), SegNames[scene.segs + 1])
    \/ /\ currentRoom[Artist] = "r1" /\ scene.segs > scene.ended
       /\ Relay(Artist, "strokeEnd", ClientIdOf(Artist), Null)
    \/ SnapshotTimerFires
    \/ /\ scene.outbox # <<>>
       /\ Snapshot(Artist, "r1", ClientIdOf(Artist), Head(scene.outbox).image)
    \/ /\ currentRoom[Viewer] = "r1" /\ ~scene.cleared
       /\ Clear(Viewer, ClientIdOf(Viewer))
    \/ scene.asks > 0 /\ RequestSync(Viewer, "r1")

SpecTurn == InitSceneSpec /\ [][NextTurn]_vars

\* C37 (as claimed): once the relay has handled the clear of the new turn,
\* the canvas state of the room never becomes a snapshot the previous drawer
\* captured before that clear.
C37_Original == ~scene.resurrected

\* --- the drawer works with every tool, undoes and clears, its socket not
\* yet open ---
InitPad ==
    /\ InitRelay({Artist, Viewer}, MonOff) /\ InitPub({FALSE}) /\ InitClock({FALSE})
    /\ scene = ScenePad

NextPad ==
    \/ \E tool \in MainTools : SelectTool(tool)
    \/ HandleMouseDown(PressPoint)
    \/ \E point \in PadPoints : HandleMouseMove(point)
    \/ HandleMouseUp
    \/ HandleUndo
    \/ ClearCanvas
    \/ PadImageLoaded
    \/ PadSnapshotTimerFires

SpecPad == InitPad /\ [][NextPad]_vars

\* the drawer has released the pointer in this step
Released == scene.pad.isMouseDown /\ ~scene'.pad.isMouseDown

\* C32 (as claimed): when the drawer has completed one drawing operation and
\* then undone once, and the image of that undo has loaded, the buffer is the
\* picture it held before the operation.
C32_Original ==
    (scene.pad.undone /\ scene.pad.loads = <<>>) => scene.pad.buffer = scene.pad.prior

\* C34 (as claimed): on pointer-up with the circle or the rectangle, the shape
\* committed to the buffer spans from the point of the press to the last
\* position the pointer reached during the drag.
C34_Original ==
    [][(Released /\ scene.pad.tool \in Shapes) =>
          /\ scene'.pad.loads # <<>>
          /\ scene'.pad.loads[Len(scene'.pad.loads)].marks =
                 <<Mark(scene.pad.tool, scene.pad.startPoint, scene.pad.pointer)>>]_vars

\* --- the drawer works with the brush, the circle and the picker and undoes,
\* one handler at a time once its earlier messages have been delivered, and a
\* peer that opens while the drawer is idle applies what the relay sends it ---
PeerReady ==
    /\ currentRoom[Artist] = "r1"
    /\ scene.asks = 0 /\ scene.outbox = <<>> /\ scene.inbox = <<>>

\* no press, image load or snapshot of the drawer is under way
PadIdle == ~scene.pad.isMouseDown /\ scene.pad.loads = <<>> /\ ~scene.timer

NextPeers ==
    \/ currentRoom[Artist] = Null /\ Join(Artist, "r1", Null)
    \/ PeerReady /\ PadIdle /\ currentRoom[Viewer] = Null /\ Join(Viewer, "r1", Null)
    \/ scene.asks > 0 /\ RequestSync(Viewer, "r1")
    \/ PeerReady /\ \E tool \in {"brush", "circle", "picker"} : SelectTool(tool)
    \/ PeerReady /\ HandleMouseDown(PressPoint)
    \/ PeerReady /\ \E point \in PadPoints : HandleMouseMove(point)
    \/ PeerReady /\ HandleMouseUp
    \/ PeerReady /\ HandleUndo
    \/ PadImageLoaded
    \/ PeerReady /\ PadSnapshotTimerFires
    \/ RelayTakes
    \/ ViewerOnMessage
    \/ PeerImageLoaded

SpecPeers == InitPad /\ [][NextPeers]_vars

\* the peer handles, in this step, a message of the given type
PeerHandles(type) ==
    /\ scene.inbox # <<>> /\ Head(scene.inbox).type = type
    /\ scene'.inbox = Tail(scene.inbox)

\* C33 (as claimed): a peer whose undo stack is not empty, on receiving an
\* undo, pops exactly one snapshot from its stack and starts restoring it.
C33_Original ==
    [][(PeerHandles("undo") /\ scene.peer.history # <<>>) =>
          /\ scene'.peer.history = SubSeq(scene.peer.history, 1, Len(scene.peer.history) - 1)
          /\ scene'.peer.loads =
                 Append(scene.peer.loads, scene.peer.history[Len(scene.peer.history)])]_vars

\* every message has been handled and every image has loaded, on both sides,
\* and the peer has been connected since before the drawer's first operation
AllApplied ==
    /\ currentRoom[Artist] = "r1" /\ currentRoom[Viewer] = "r1" /\ scene.peer.sinceStart
    /\ scene.asks = 0 /\ scene.outbox = <<>> /\ scene.inbox = <<>>
    /\ ~scene.pad.isMouseDown /\ scene.pad.loads = <<>> /\ scene.peer.loads = <<>>

\* C36 (as claimed): once every relayed event has been applied, the buffer of
\* a connected peer shows the same picture as the drawer's.
C36_Original == AllApplied => scene.peer.buffer = scene.pad.buffer

\* C40 (as claimed): a press and release that began with the picker, nothing
\* drawn in between, pushes no undo snapshot, sends no message and arms no
\* snapshot.
C40_Original ==
    [][(Released /\ scene.pad.pressedWith = "picker" /\ scene.pad.buffer = scene.pad.prior) =>
          /\ scene'.pad.history = scene.pad.history
          /\ scene'.outbox = scene.outbox
          /\ scene'.timer = scene.timer]_vars

\* --- one segment drawn between two canvases of different sizes ---
InitDraw ==
    /\ InitRelay({Artist, Viewer}, MonOff) /\ InitPub({FALSE}) /\ InitClock({FALSE})
    /\ scene = SceneDraw

NextDraw ==
    \/ \E c \in {Artist, Viewer}, w, h \in 1..MaxDim : Resize(c, w, h)
    \/ \E c \in {Artist, Viewer} :
          /\ scene.size[c] # NoSize /\ currentRoom[c] = Null
          /\ Join(c, "r1", Null)
    \/ /\ currentRoom[Artist] = "r1" /\ scene.lastPoint = NoPoint /\ scene.segs = 0
       /\ \E point \in PointsIn(scene.size[Artist]) : MouseDown(point)
    \/ /\ currentRoom[Artist] = "r1" /\ scene.lastPoint # NoPoint /\ scene.segs = 0
       /\ \E point \in PointsIn(scene.size[Artist]) :
             Relay(Artist, "draw", ClientIdOf(Artist),
                   Payload(scene.lastPoint, point, scene.size[Artist]))
    \/ ViewerOnMessage

SpecDraw == InitDraw /\ [][NextDraw]_vars

\* the viewer has joined and has nothing left to send, receive or paint
ViewerSettled ==
    /\ currentRoom[Viewer] = "r1"
    /\ scene.asks = 0
    /\ scene.inbox = <<>>
    /\ scene.loads = <<>>

\* what the viewer's canvas shows
ViewerShows == SegsOf(scene.base) \cup scene.strokes

\* C29 (as claimed): once a viewer that joined during the turn has applied
\* the syncs and every event sent to it, its canvas shows every segment the
\* drawer has produced.
C29_Original ==
    ViewerSettled => \A k \in 1..scene.segs : SegNames[k] \in ViewerShows

\* the distance between an applied coordinate a (in counts of 1/Unit pixel)
\* and the position x * w2 / w is at most one pixel
Within1(a, x, w, w2) ==
    LET diff == a * w - x * w2 * Unit
    IN  diff <= w * Unit /\ 0 - diff <= w * Unit

\* C30: while the viewer's canvas keeps its size, every line it has painted
\* for a draw event has both ends within one pixel, on each axis, of the
\* position the end had on the drawer's canvas scaled to the viewer's size.
C30_SameRelativePosition ==
    scene.geometry =>
        \A line \in scene.strokes :
            LET from == scene.size[Artist]
                to == scene.size[Viewer]
            IN  /\ Within1(line.to.x, line.msg.x, from.w, to.w)
                /\ Within1(line.to.y, line.msg.y, from.h, to.h)
                /\ Within1(line.from.x, line.msg.prevX, from.w, to.w)
                /\ Within1(line.from.y, line.msg.prevY, from.h, to.h)

\* a line has been painted on a canvas of another size, at a point where the
\* division by the width is not exact and the absolute coordinate is more
\* than a pixel away
C30_Witness ==
    /\ scene.geometry
    /\ \E line \in scene.strokes :
          /\ scene.size[Artist].w = 3 /\ scene.size[Viewer].w = 1
          /\ scene.size[Artist].h # scene.size[Viewer].h
          /\ line.msg.x = 2 /\ line.msg.prevX = 1
          /\ line.to.x # line.msg.x * Unit

\* C31: a per-second tick that changes the displayed countdown while no new
\* room state awaits rendering leaves both auto timers, the schedule key and
\* the count of pending timeouts as they were, and calls neither
\* handleChooseWord nor handleChooseDrawer.
C31_TickLeavesTimers ==
    [][(timeLeft' # timeLeft /\ ~pendingRender) =>
          /\ autoWordTimeout' = autoWordTimeout
          /\ autoDrawerTimeout' = autoDrawerTimeout
          /\ autoDrawerScheduleKey' = autoDrawerScheduleKey
          /\ timers' = timers
          /\ ~fired'.called
          /\ autoWordCalls' = autoWordCalls /\ autoDrawerCalls' = autoDrawerCalls]_vars

\* a tick during the drawing phase has lowered the countdown while the auto
\* drawer timer is pending and no render is outstanding
C31_Witness ==
    /\ IsDrawing(roomRef) /\ StampSet(roomRef.wordChosenAt)
    /\ ~pendingRender
    /\ autoDrawerTimeout.armed
    /\ timeLeft = SecondsLeft(roomRef.wordChosenAt, RoundSeconds)
    /\ timeLeft < RoundSeconds

\* C35 (as claimed): a room's pending word has no influence on what the
\* relay sends: the hash of every blob_published is the hash of the image
\* and metadata the request itself carried, as it would be had no word been
\* pending.
C35_Original ==
    [][\A i \in PubIds : Returned(i, "ok")' =>
          \A k \in 1..Len(sent') :
              sent'[k].msg.type = "blob_published" =>
                  sent'[k].msg.body = HashOf(Content(pubs[i].image, pubs[i].given))]_vars

\* the connection has sent leave for the room it last joined and has not
\* joined since
HasLeft(c) ==
    /\ Truthy(currentRoom[c])
    /\ ~(RoomsHas(currentRoom[c]) /\ c \in Members(currentRoom[c]))

\* C38 (as claimed): a draw, fill, undo, strokeEnd or clear of a connection
\* that has left its room is sent to nobody and changes no room's canvas
\* state.
C38_Original ==
    [][\A c \in Conns :
          (HasLeft(c) /\ last'.conn = c /\ last'.data.type \in RelayedTypes) =>
              sent' = <<>> /\ roomCanvasState' = roomCanvasState]_vars

\* a step of a publish that does not succeed: the publish_blob handler, or
\* an exec callback with an error or with output that holds no hash
FailingStep ==
    \/ last.data.type = "publish_blob"
    \/ last.data.type = "exec_callback" /\ last.data.clientId # "ok"

\* C39: the publish_blob handler and every exec callback that fails insert
\* no history row and leave the word assertions, the session registry and
\* the canvas states as they were.
C39_FailureChangesNothing ==
    [][FailingStep' =>
          /\ inserted' = <<>> /\ history' = history
          /\ roomWordCache' = roomWordCache
          /\ rooms' = rooms
          /\ roomCanvasState' = roomCanvasState]_vars

\* a blob_error has just been sent by an exec callback while the room has a
\* pending word, a stored snapshot and a member with an identity
C39_Witness ==
    /\ last.data.type = "exec_callback" /\ last.data.clientId = "error"
    /\ \E k \in 1..Len(sent) : sent[k].msg.type = "blob_error"
    /\ roomWordCache["r1"].has
    /\ roomCanvasState["r1"].kind = "image"
    /\ IdentitiesWith("c1") # {}

====
